---- MODULE Spec2Model ----
(***************************************************************************)
(* A model of mk (friedelschoen/mk).  The repository holds two generations *)
(* of the program side by side:                                            *)
(*   - the node scheduler (mkNode, mkNodePrereqs, the subprocess           *)
(*     semaphore, main) of src/unnamed/part_003 with dorecipe of           *)
(*     src/recipe.go, modelled by the specification Spec;                  *)
(*   - the Graph builder (FindRule, Build, BuildRule) of src/graph.go      *)
(*     with the line parser of src/reader.go.                              *)
(* The node and edge types and node.updateTimestamp belong to the first    *)
(* generation but are not among the source files; they are modelled from   *)
(* the specification text (section 3, "Node", and section 4.6).            *)
(***************************************************************************)
EXTENDS Integers, Sequences, FiniteSets, TLC

(***************************************************************************)
(* Bounds of the model.                                                    *)
(***************************************************************************)
\* the job limit -j ranges over 1..MaxJobs
MaxJobs == 2
\* modification times of the files present before the run range over 1..MaxTime
MaxTime == 2

(***************************************************************************)
(* Names, status values.                                                   *)
(***************************************************************************)
\* the target of the dummy virtual rule main adds (its name is "" in main)
ROOT == "root"
Names == {ROOT, "a", "b", "c", "d"}
NONE == "none"
\* exitcode while the process is still running
RUNNING == -1

nodeStatusReady == "Ready"
nodeStatusStarted == "Started"
nodeStatusDone == "Done"
nodeStatusNop == "Nop"
nodeStatusFailed == "Failed"
NodeStatus ==
    {nodeStatusReady, nodeStatusStarted, nodeStatusDone, nodeStatusNop, nodeStatusFailed}

(***************************************************************************)
(* Rules.  A rule as the scheduler reads it: its prerequisites, the        *)
(* attributes of attribSet that parseAttribs sets, and whether the recipe  *)
(* is non-empty.  hasRule = FALSE is a node without edges (a source file). *)
(***************************************************************************)
Rule(pre, attrs, rec) ==
    [hasRule |-> TRUE, prereqs |-> pre, recipe |-> rec,
     virtual |-> "V" \in attrs, exclusive |-> "X" \in attrs,
     delFailed |-> "D" \in attrs, nonstop |-> "E" \in attrs]

NoRule ==
    [hasRule |-> FALSE, prereqs |-> <<>>, recipe |-> FALSE,
     virtual |-> FALSE, exclusive |-> FALSE, delFailed |-> FALSE, nonstop |-> FALSE]

\* the rule main adds: virtual, no recipe, the requested targets as prerequisites
RootRule(targets) == Rule(targets, {"V"}, FALSE)

\* all: a b / a: c / b: c / c: -- c is shared (a diamond); a and c have a recipe,
\* b has none
MkDiamond ==
    [n \in Names |->
        CASE n = ROOT -> RootRule(<<"a", "b">>)
          [] n = "a" -> Rule(<<"c">>, {}, TRUE)
          [] n = "b" -> Rule(<<"c">>, {}, FALSE)
          [] n = "c" -> Rule(<<>>, {}, TRUE)
          [] OTHER -> NoRule]

\* a:VX: / b:VX: / c: / d: -- four independent recipes, two of them exclusive
MkExclusive ==
    [n \in Names |->
        CASE n = ROOT -> RootRule(<<"a", "b", "c", "d">>)
          [] n \in {"a", "b"} -> Rule(<<>>, {"V", "X"}, TRUE)
          [] OTHER -> Rule(<<>>, {}, TRUE)]

\* a:DX: b / b:E: c -- a chain; c is a source file without a rule
MkAttrs ==
    [n \in Names |->
        CASE n = ROOT -> RootRule(<<"a">>)
          [] n = "a" -> Rule(<<"b">>, {"D", "X"}, TRUE)
          [] n = "b" -> Rule(<<"c">>, {"E"}, TRUE)
          [] OTHER -> NoRule]

Mkfiles == {MkDiamond, MkAttrs}

(***************************************************************************)
(* State.                                                                  *)
(***************************************************************************)
VARIABLES
    graph,             \* the rules of the mkfile, by target (fixed during a run)
    dryrun,            \* -n
    rebuildall,        \* --force-all
    rebuildtargets,    \* --force-target: the requested targets
    subprocsAllowed,   \* -j
    status,            \* node.status
    listeners,         \* node.listeners: channels, each <<owner, pass>>
    locked,            \* node.mutex is held by the node's deferred notification
    exists,            \* node.exists
    t,                 \* node.t
    fexists,           \* the file system: does the file exist
    ftime,             \* the file system: modification time
    clock,             \* the time the next write to a file gets
    spawned,           \* goroutines "go mkNode(g, n, dryrun, required)" not yet at the claim
    task,              \* the locals of the mkNode call that has claimed the node
    subprocsRunning,
    condWaiters,       \* goroutines blocked in subprocsRunningCond.Wait()
    condL,             \* holder of subprocsRunningCond.L
    exclusiveSubproc,  \* holder of the exclusiveSubproc mutex
    runs,              \* number of dorecipe invocations per node in this run
    exitcode,          \* exit code of the process, RUNNING until it exits
    arg,               \* the arguments of the function under test
    res,               \* its result
    rules,             \* Graph.rules, in the order of definition
    args,              \* flag.Args(): the targets named on the command line
    mtime,             \* the files of the Graph run: modification time, 0 = missing
    gclock,            \* the modification time of the next file written
    frames,            \* the running calls of Build and BuildRule, by call path
    arrays,            \* the backing arrays of the history slices, by allocating call
    ran,               \* the recipes executed by BuildRule, in order
    stderr,            \* the error main prints
    exit               \* exit code of the Graph run, RUNNING until it exits

vars ==
    <<graph, dryrun, rebuildall, rebuildtargets, subprocsAllowed, status, listeners,
      locked, exists, t, fexists, ftime, clock, spawned, task, subprocsRunning,
      condWaiters, condL, exclusiveSubproc, runs, exitcode, arg, res,
      rules, args, mtime, gclock, frames, arrays, ran, stderr, exit>>

\* the variables of the Graph run (src/graph.go, src/main.go)
build == <<rules, args, mtime, gclock, frames, arrays, ran, stderr, exit>>

\* the variables of the second generation (src/graph.go, src/reader.go)
nonsched == <<arg, res, build>>

config == <<graph, dryrun, rebuildall, rebuildtargets, subprocsAllowed>>
files == <<fexists, ftime, clock>>
sem == <<subprocsRunning, condWaiters, condL, exclusiveSubproc>>

\* the locals of a mkNode call; Idle when no call has claimed the node
Idle ==
    [pc |-> "idle", required |-> FALSE, i |-> 0, pending |-> 0,
     uptodate |-> TRUE, finalstatus |-> nodeStatusDone, stolen |-> 0]

\* the prereqs list mkNode collects from the node's edges
Prereqs(n) == graph[n].prereqs

\* the targets given on the command line (the prerequisites of the root rule)
Targets(g) == {g[ROOT].prereqs[k] : k \in DOMAIN g[ROOT].prereqs}

Range(f) == {f[k] : k \in 1..Len(f)}

\* the nodes buildgraph creates: those the root reaches through prerequisites
Nodes(g) ==
    LET step(S) == S \cup UNION {Range(g[n].prereqs) : n \in S}
    IN  step(step(step({ROOT})))

\* nodes that stand for files: virtual targets have no file in this model
IsFile(g, n) == n \in Nodes(g) /\ ~g[n].virtual

InitOf(mkfiles) ==
    /\ graph \in mkfiles
    /\ dryrun \in BOOLEAN
    /\ rebuildall \in BOOLEAN
    /\ rebuildtargets \in {{}, Targets(graph)}
    \* at most one of -n, --force-all, --force-target is given
    /\ ~(dryrun /\ rebuildall)
    /\ ~(dryrun /\ rebuildtargets # {})
    /\ ~(rebuildall /\ rebuildtargets # {})
    /\ subprocsAllowed \in 1..MaxJobs
    /\ status = [n \in Names |-> nodeStatusReady]
    /\ listeners = [n \in Names |-> <<>>]
    /\ locked = [n \in Names |-> FALSE]
    /\ fexists \in [Names -> BOOLEAN]
    /\ ftime \in [Names -> 0..MaxTime]
    /\ \A n \in Names : fexists[n] <=> ftime[n] > 0
    /\ \A n \in Names : fexists[n] => IsFile(graph, n)
    \* buildgraph has just stat-ed every node
    /\ exists = fexists
    /\ t = ftime
    /\ clock = MaxTime + 1
    \* main calls mkNode(g, g.root, dryrun, true)
    /\ spawned = [n \in Names |-> [r \in BOOLEAN |-> IF n = ROOT /\ r THEN 1 ELSE 0]]
    /\ task = [n \in Names |-> Idle]
    /\ subprocsRunning = 0
    /\ condWaiters = {}
    /\ condL = NONE
    /\ exclusiveSubproc = NONE
    /\ runs = [n \in Names |-> 0]
    /\ exitcode = RUNNING

\* no function is under test
NoCall ==
    /\ arg = <<>>
    /\ res = <<>>

\* the Graph builder does not run
BuildOff ==
    /\ rules = <<>>
    /\ args = <<>>
    /\ mtime = <<>>
    /\ gclock = 0
    /\ frames = <<>>
    /\ arrays = <<>>
    /\ ran = <<>>
    /\ stderr = <<>>
    /\ exit = 0

Init == InitOf(Mkfiles) /\ NoCall /\ BuildOff

\* the semaphore under load: four independent recipes, two of them exclusive,
\* no target present before the run
InitSem ==
    /\ InitOf({MkExclusive})
    /\ NoCall
    /\ BuildOff
    /\ \A n \in Names : ~fexists[n]
    /\ ~rebuildall /\ rebuildtargets = {}


(***************************************************************************)
(* The subprocess semaphore: reserveSubproc, finishSubproc,                *)
(* reserveExclusiveSubproc, finishExclusiveSubproc.  A critical section of *)
(* subprocsRunningCond.L that does not block is one step; Wait releases L  *)
(* and blocks until a Signal or Broadcast takes the goroutine out of       *)
(* condWaiters, and the goroutine then takes L again.                      *)
(***************************************************************************)
\* (mutant) the loop condition off by one: "for subprocsRunning > subprocsAllowed"
SlotFreeOffByOne(running, allowed) == ~(running > allowed)

\* (mutant) reserveSubproc never waits for a slot
SlotFreeAlways(running, allowed) == TRUE

\* reserveSubproc leaves its loop: "for subprocsRunning >= subprocsAllowed" is false
SlotFree(running, allowed) == ~(running >= allowed)

\* (mutant) the exclusive recipe does not wait for the slots still in use
StolenAllNoWait(stolen, allowed) == TRUE

\* reserveExclusiveSubproc leaves its loop: "for stolenSubprocs < subprocsAllowed" is false
StolenAll(stolen, allowed) == ~(stolen < allowed)

\* the recipe of n is executing: between reserve...Subproc and finish...Subproc
Executing(n) == task[n].pc \in {"recipe", "finish"}

reserveSubproc(n) ==
    /\ exitcode = RUNNING
    /\ task[n].pc \in {"reserve", "woken"}
    /\ ~graph[n].exclusive
    /\ condL = NONE
    /\ IF SlotFree(subprocsRunning, subprocsAllowed)
       THEN /\ subprocsRunning' = subprocsRunning + 1
            /\ task' = [task EXCEPT ![n].pc = "recipe"]
            /\ UNCHANGED condWaiters
       ELSE /\ condWaiters' = condWaiters \cup {n}
            /\ task' = [task EXCEPT ![n].pc = "waiting"]
            /\ UNCHANGED subprocsRunning
    /\ UNCHANGED nonsched
    /\ UNCHANGED <<config, files, status, listeners, locked, exists, t, spawned,
                   condL, exclusiveSubproc, runs, exitcode>>

\* (mutant) finishSubproc without its Signal: no goroutine is woken
SignalledLost(n) == task' = [task EXCEPT ![n].pc = "notify"] /\ UNCHANGED condWaiters

\* subprocsRunningCond.Signal(): wakes one waiting goroutine, if there is any
Signalled(n) ==
    IF condWaiters = {} THEN task' = [task EXCEPT ![n].pc = "notify"] /\ UNCHANGED condWaiters
    ELSE \E w \in condWaiters :
            /\ condWaiters' = condWaiters \ {w}
            /\ task' = [task EXCEPT ![n].pc = "notify",
                                    ![w].pc = IF graph[w].exclusive THEN "xwoken" ELSE "woken"]

finishSubproc(n) ==
    /\ exitcode = RUNNING
    /\ task[n].pc = "finish"
    /\ ~graph[n].exclusive
    /\ condL = NONE
    /\ subprocsRunning' = subprocsRunning - 1
    /\ Signalled(n)
    /\ UNCHANGED nonsched
    /\ UNCHANGED <<config, files, status, listeners, locked, exists, t, spawned,
                   condL, exclusiveSubproc, runs, exitcode>>

\* exclusiveSubproc.Lock()
reserveExclusiveLock(n) ==
    /\ exitcode = RUNNING
    /\ task[n].pc = "reserve"
    /\ graph[n].exclusive
    /\ exclusiveSubproc = NONE
    /\ exclusiveSubproc' = n
    /\ task' = [task EXCEPT ![n].pc = "xfirst"]
    /\ UNCHANGED nonsched
    /\ UNCHANGED <<config, files, status, listeners, locked, exists, t, spawned,
                   subprocsRunning, condWaiters, condL, runs, exitcode>>

\* with L taken: steal the free slots; wait for more, or keep L and run the recipe
reserveExclusiveSubproc(n) ==
    /\ exitcode = RUNNING
    /\ task[n].pc \in {"xfirst", "xwoken"}
    /\ condL = NONE
    /\ LET stolen == task[n].stolen + (subprocsAllowed - subprocsRunning)
       IN  /\ subprocsRunning' = subprocsAllowed
           /\ IF StolenAll(stolen, subprocsAllowed)
              THEN /\ condL' = n
                   /\ task' = [task EXCEPT ![n].pc = "recipe", ![n].stolen = 0]
                   /\ UNCHANGED condWaiters
              ELSE /\ condWaiters' = condWaiters \cup {n}
                   /\ task' = [task EXCEPT ![n].pc = "xwaiting", ![n].stolen = stolen]
                   /\ UNCHANGED condL
    /\ UNCHANGED nonsched
    /\ UNCHANGED <<config, files, status, listeners, locked, exists, t, spawned,
                   exclusiveSubproc, runs, exitcode>>

\* subprocsRunning = 0; Broadcast; L.Unlock; exclusiveSubproc.Unlock
finishExclusiveSubproc(n) ==
    /\ exitcode = RUNNING
    /\ task[n].pc = "finish"
    /\ graph[n].exclusive
    /\ subprocsRunning' = 0
    /\ condWaiters' = {}
    /\ task' = [m \in Names |->
                  IF m = n THEN [task[m] EXCEPT !.pc = "notify"]
                  ELSE IF m \in condWaiters
                       THEN [task[m] EXCEPT !.pc = IF graph[m].exclusive THEN "xwoken" ELSE "woken"]
                       ELSE task[m]]
    /\ condL' = NONE
    /\ exclusiveSubproc' = NONE
    /\ UNCHANGED nonsched
    /\ UNCHANGED <<config, files, status, listeners, locked, exists, t, spawned,
                   runs, exitcode>>


(***************************************************************************)
(* node.updateTimestamp (not among the source files): stat the target;     *)
(* exists and t become those of the file, t the zero time when the file    *)
(* is missing.                                                             *)
(***************************************************************************)
StatExists(fe, n) == fe[n]
StatTime(fe, ft, n) == IF fe[n] THEN ft[n] ELSE 0

(***************************************************************************)
(* mkNode.                                                                 *)
(***************************************************************************)
\* (mutant) a node that is Done can be claimed again
ClaimableDone(s) == ~(s # nodeStatusReady /\ s # nodeStatusNop /\ s # nodeStatusDone)

\* (mutant) a failed node can be claimed again
ClaimableFailed(s) == ~(s # nodeStatusReady /\ s # nodeStatusNop /\ s # nodeStatusFailed)

\* "if u.status != nodeStatusReady && u.status != nodeStatusNop { return }"
Claimable(s) == ~(s # nodeStatusReady /\ s # nodeStatusNop)

\* prereqsRequired := required && (e.r.attributes.virtual || !u.exists)
PrereqsRequired(required, virtual, ex) == required /\ (virtual \/ ~ex)

\* (mutant) the comparison of the times reversed
PrereqNewerReversed(ut, pt, pstatus) == pt < ut \/ pstatus = nodeStatusDone

\* the prerequisite p makes its dependent (of time ut) out of date
PrereqNewer(ut, pt, pstatus) == ut < pt \/ pstatus = nodeStatusDone

\* (mutant) without the first branch, "if !u.exists && required"
UpToDateNoMissing(n, required, ex, ut) ==
    IF ~graph[n].virtual
    THEN IF ex \/ required
         THEN \A k \in 1..Len(Prereqs(n)) :
                 ~PrereqNewer(ut, t[Prereqs(n)[k]], status[Prereqs(n)[k]])
         ELSE TRUE
    ELSE FALSE

\* the value of uptodate after the stat and the comparison with the prerequisites
UpToDate(n, required, ex, ut) ==
    IF ~graph[n].virtual
    THEN IF ~ex /\ required THEN FALSE
         ELSE IF ex \/ required
              THEN \A k \in 1..Len(Prereqs(n)) :
                      ~PrereqNewer(ut, t[Prereqs(n)[k]], status[Prereqs(n)[k]])
              ELSE IF required THEN FALSE ELSE TRUE
    ELSE FALSE

\* "_, isrebuildtarget := rebuildtargets[u.name]; if isrebuildtarget || rebuildall"
Forced(n) == n \in rebuildtargets \/ rebuildall

\* "if !uptodate && finalstatus != nodeStatusFailed && len(e.r.recipe) > 0"
RunsRecipe(uptodate, finalstatus, recipe) ==
    ~uptodate /\ finalstatus # nodeStatusFailed /\ recipe

\* the end of mkNode once the prerequisites are settled: reserve a subprocess
\* for the recipe, or finish as Nop (unless already Failed)
Decide(n, tk) ==
    IF RunsRecipe(tk.uptodate, tk.finalstatus, graph[n].recipe)
    THEN [tk EXCEPT !.pc = "reserve"]
    ELSE [tk EXCEPT !.pc = "notify",
                    !.finalstatus = IF @ # nodeStatusFailed THEN nodeStatusNop ELSE @]

\* a call of mkNodePrereqs begins: the loop over prereqs, or past it when there are none
EnterPrereqs(n, tk, pass) ==
    IF Len(Prereqs(n)) = 0
    THEN IF pass = 1 THEN [tk EXCEPT !.pc = "check"] ELSE Decide(n, tk)
    ELSE [tk EXCEPT !.pc = IF pass = 1 THEN "reg1" ELSE "reg2", !.i = 1, !.pending = 0]

\* mkNodePrereqs has received all it waited for
LeavePrereqs(n, tk, pass) ==
    IF pass = 1 THEN [tk EXCEPT !.pc = "check", !.i = 0] ELSE Decide(n, [tk EXCEPT !.i = 0])

Pass(pc) == IF pc \in {"reg1", "wait1"} THEN 1 ELSE 2

\* the goroutine of "go mkNode(...)" (or main's call for the root) tries to claim
\* the node; a node without edges is settled at once
mkNodeClaim(n, req) ==
    /\ exitcode = RUNNING
    /\ spawned[n][req] > 0
    /\ ~locked[n]
    /\ spawned' = [spawned EXCEPT ![n][req] = @ - 1]
    /\ IF Claimable(status[n])
       THEN /\ status' = [status EXCEPT ![n] = nodeStatusStarted]
            /\ IF ~graph[n].hasRule
               THEN IF ~exists[n]
                    THEN \* mkError("don't know how to make ..."): os.Exit(1)
                         /\ exitcode' = 1
                         /\ UNCHANGED task
                    ELSE /\ task' = [task EXCEPT ![n] =
                                 [Idle EXCEPT !.pc = "notify", !.required = req,
                                              !.finalstatus = nodeStatusNop]]
                         /\ UNCHANGED exitcode
               ELSE /\ task' = [task EXCEPT ![n] =
                                 EnterPrereqs(n, [Idle EXCEPT !.required = req], 1)]
                    /\ UNCHANGED exitcode
       ELSE UNCHANGED <<status, task, exitcode>>
    /\ UNCHANGED nonsched
    /\ UNCHANGED <<config, files, sem, listeners, locked, exists, t, runs>>

\* the required argument mkNodePrereqs is called with in this pass
PassRequired(n, pass) ==
    IF pass = 1
    THEN PrereqsRequired(task[n].required, graph[n].virtual, exists[n])
    ELSE TRUE

\* (mutant) mkNodePrereqs starts the prerequisites and returns without
\* waiting for them
mkNodePrereqsNoWait(n) ==
    /\ exitcode = RUNNING
    /\ task[n].pc \in {"reg1", "reg2"}
    /\ LET pass == Pass(task[n].pc)
           p == Prereqs(n)[task[n].i]
           subscribe == status[p] \in {nodeStatusReady, nodeStatusNop, nodeStatusStarted}
           pending == task[n].pending + (IF subscribe THEN 1 ELSE 0)
           tk == [task[n] EXCEPT !.i = @ + 1, !.pending = pending]
       IN  /\ ~locked[p]
           /\ spawned' = IF Claimable(status[p])
                         THEN [spawned EXCEPT ![p][PassRequired(n, pass)] = @ + 1]
                         ELSE spawned
           /\ UNCHANGED listeners
           /\ task' = [task EXCEPT ![n] =
                         IF task[n].i < Len(Prereqs(n)) THEN tk
                         ELSE LeavePrereqs(n, [tk EXCEPT !.pending = 0], pass)]
    /\ UNCHANGED nonsched
    /\ UNCHANGED <<config, files, sem, status, locked, exists, t, runs, exitcode>>

\* one iteration of the loop of mkNodePrereqs over prereqs, under the
\* prerequisite's mutex
mkNodePrereqsLoop(n) ==
    /\ exitcode = RUNNING
    /\ task[n].pc \in {"reg1", "reg2"}
    /\ LET pass == Pass(task[n].pc)
           p == Prereqs(n)[task[n].i]
           subscribe == status[p] \in {nodeStatusReady, nodeStatusNop, nodeStatusStarted}
           pending == task[n].pending + (IF subscribe THEN 1 ELSE 0)
           tk == [task[n] EXCEPT !.i = @ + 1, !.pending = pending]
       IN  /\ ~locked[p]
           /\ spawned' = IF Claimable(status[p])
                         THEN [spawned EXCEPT ![p][PassRequired(n, pass)] = @ + 1]
                         ELSE spawned
           /\ listeners' = IF subscribe
                           THEN [listeners EXCEPT ![p] = Append(@, <<n, pass>>)]
                           ELSE listeners
           /\ task' = [task EXCEPT ![n] =
                         IF task[n].i < Len(Prereqs(n)) THEN tk
                         ELSE IF pending > 0
                              THEN [tk EXCEPT !.pc = IF pass = 1 THEN "wait1" ELSE "wait2"]
                              ELSE LeavePrereqs(n, tk, pass)]
    /\ UNCHANGED nonsched
    /\ UNCHANGED <<config, files, sem, status, locked, exists, t, runs, exitcode>>

\* after the first mkNodePrereqs: stat the target, decide whether it is up to date
mkNodeCheck(n) ==
    /\ exitcode = RUNNING
    /\ task[n].pc = "check"
    /\ LET ex == IF graph[n].virtual THEN exists[n] ELSE StatExists(fexists, n)
           ut == IF graph[n].virtual THEN t[n] ELSE StatTime(fexists, ftime, n)
           uptodate == UpToDate(n, task[n].required, ex, ut) /\ ~Forced(n)
           tk == [task[n] EXCEPT !.uptodate = uptodate]
       IN  /\ exists' = [exists EXCEPT ![n] = ex]
           /\ t' = [t EXCEPT ![n] = ut]
           /\ task' = [task EXCEPT ![n] =
                         IF uptodate THEN Decide(n, tk) ELSE EnterPrereqs(n, tk, 2)]
    /\ UNCHANGED nonsched
    /\ UNCHANGED <<config, files, sem, status, listeners, locked, spawned, runs, exitcode>>


(***************************************************************************)
(* dorecipe.  The recipe is a shell script: it succeeds or fails and may   *)
(* or may not write its target; with dryrun it is printed only and         *)
(* reported successful.  mkNode then stats the target again.               *)
(***************************************************************************)
\* the file system after the recipe of n ran: touched or left alone
RecipeWrites(n, touch) == touch /\ IsFile(graph, n)

dorecipe(n) ==
    /\ exitcode = RUNNING
    /\ task[n].pc = "recipe"
    /\ runs' = [runs EXCEPT ![n] = @ + 1]
    /\ \E ok \in BOOLEAN, touch \in BOOLEAN :
          /\ dryrun => ok /\ ~touch
          /\ touch => IsFile(graph, n)
          /\ fexists' = IF RecipeWrites(n, touch) THEN [fexists EXCEPT ![n] = TRUE] ELSE fexists
          /\ ftime' = IF RecipeWrites(n, touch) THEN [ftime EXCEPT ![n] = clock] ELSE ftime
          /\ clock' = IF RecipeWrites(n, touch) THEN clock + 1 ELSE clock
          /\ exists' = [exists EXCEPT ![n] = StatExists(fexists', n)]
          /\ t' = [t EXCEPT ![n] = StatTime(fexists', ftime', n)]
          /\ task' = [task EXCEPT ![n].pc = "finish",
                                  ![n].finalstatus = IF ok THEN @ ELSE nodeStatusFailed]
    /\ UNCHANGED nonsched
    /\ UNCHANGED <<config, sem, status, listeners, locked, spawned, exitcode>>

(***************************************************************************)
(* The deferred function of mkNode: under the node's mutex, set the final  *)
(* status and send it on every listener channel (unbuffered: each send     *)
(* waits for the owner of the channel to receive), then clear the list.    *)
(***************************************************************************)
mkNodeNotify(n) ==
    /\ exitcode = RUNNING
    /\ task[n].pc = "notify"
    /\ ~locked[n]
    /\ status' = [status EXCEPT ![n] = task[n].finalstatus]
    /\ IF listeners[n] = <<>>
       THEN /\ task' = [task EXCEPT ![n] = Idle]
            /\ UNCHANGED locked
       ELSE /\ task' = [task EXCEPT ![n].pc = "send", ![n].i = 1]
            /\ locked' = [locked EXCEPT ![n] = TRUE]
    /\ UNCHANGED nonsched
    /\ UNCHANGED <<config, files, sem, listeners, exists, t, spawned, runs, exitcode>>

\* "u.listeners[i] <- u.status" meets "s := <-prereqstat" in mkNodePrereqs (whose
\* result, Failed if any s is, both call sites in mkNode discard)
mkNodeSend(n) ==
    /\ exitcode = RUNNING
    /\ task[n].pc = "send"
    /\ LET ch == listeners[n][task[n].i]
           o == ch[1]
           pass == ch[2]
           last == task[n].i = Len(listeners[n])
           rcv == [task[o] EXCEPT !.pending = @ - 1]
       IN  /\ task[o].pc = (IF pass = 1 THEN "wait1" ELSE "wait2")
           /\ task' = [task EXCEPT
                         ![o] = IF rcv.pending > 0 THEN rcv ELSE LeavePrereqs(o, rcv, pass),
                         ![n] = IF last THEN Idle ELSE [@ EXCEPT !.i = @ + 1]]
           /\ listeners' = IF last THEN [listeners EXCEPT ![n] = <<>>] ELSE listeners
           /\ locked' = IF last THEN [locked EXCEPT ![n] = FALSE] ELSE locked
    /\ UNCHANGED nonsched
    /\ UNCHANGED <<config, files, sem, status, exists, t, spawned, runs, exitcode>>

\* main: mkNode(g, g.root, dryrun, true) has returned, main returns
mainReturn ==
    /\ exitcode = RUNNING
    /\ task[ROOT].pc = "idle"
    /\ status[ROOT] \in {nodeStatusDone, nodeStatusNop, nodeStatusFailed}
    /\ exitcode' = 0
    /\ UNCHANGED nonsched
    /\ UNCHANGED <<config, files, sem, status, listeners, locked, exists, t, spawned,
                   task, runs>>

Next ==
    \/ \E n \in Names, req \in BOOLEAN : mkNodeClaim(n, req)
    \/ \E n \in Names : mkNodePrereqsLoop(n)
    \/ \E n \in Names : mkNodeCheck(n)
    \/ \E n \in Names : reserveSubproc(n)
    \/ \E n \in Names : reserveExclusiveLock(n)
    \/ \E n \in Names : reserveExclusiveSubproc(n)
    \/ \E n \in Names : dorecipe(n)
    \/ \E n \in Names : finishSubproc(n)
    \/ \E n \in Names : finishExclusiveSubproc(n)
    \/ \E n \in Names : mkNodeNotify(n)
    \/ \E n \in Names : mkNodeSend(n)
    \/ mainReturn

Spec == Init /\ [][Next]_vars

SpecSem == InitSem /\ [][Next]_vars

TypeOK ==
    /\ status \in [Names -> NodeStatus]
    /\ locked \in [Names -> BOOLEAN]
    /\ subprocsRunning \in 0..subprocsAllowed
    /\ exitcode \in {RUNNING, 0, 1}
    /\ \A n \in Names : Claimable(status[n]) /\ ~locked[n] => task[n].pc = "idle"


(***************************************************************************)
(* Properties of the scheduler.                                            *)
(***************************************************************************)
\* dorecipe invocations of n so far, the one in progress included
Invocations(n) == runs[n] + (IF task[n].pc = "recipe" THEN 1 ELSE 0)

\* the pc values between the decision to run the recipe and its end
InRecipe == {"reserve", "waiting", "woken", "xfirst", "xwaiting", "xwoken", "recipe", "finish"}

\* C1: for every node, in every run and under every interleaving (re-claims of a
\* node in status Nop included), dorecipe is invoked at most once.
C1_RecipeAtMostOnce == \A n \in Names : Invocations(n) <= 1

\* c runs its recipe in (at least) its second claim: a is in its second
\* mkNodePrereqs, so its first one has waited for a full mkNode of c, which
\* ended Nop (c is not Done or Failed: it is running)
C1_Witness ==
    /\ task["a"].pc = "wait2"
    /\ "c" \in Range(Prereqs("a"))
    /\ task["c"].pc = "finish"
    /\ runs["c"] = 1

\* C2: while the recipe of an exclusive rule executes, no other recipe executes.
C2_ExclusiveAlone ==
    \A n \in Names : Executing(n) /\ graph[n].exclusive =>
        \A m \in Names \ {n} : ~Executing(m)

\* an exclusive recipe executes after another recipe has run, while an exclusive
\* and a non-exclusive one are held back
C2_Witness ==
    \E n, m, k, l \in Names :
        /\ graph[n].exclusive /\ task[n].pc = "recipe"
        /\ runs[m] = 1 /\ ~graph[m].exclusive
        /\ graph[k].exclusive /\ task[k].pc = "reserve"
        /\ ~graph[l].exclusive /\ task[l].pc \in {"waiting", "woken"}

\* C3: the number of non-exclusive recipes executing never exceeds the job limit.
C3_JobLimit ==
    Cardinality({n \in Names : Executing(n) /\ ~graph[n].exclusive}) <= subprocsAllowed

\* the limit binds: as many recipes execute as are allowed and another one waits
C3_Witness ==
    /\ Cardinality({n \in Names : Executing(n) /\ ~graph[n].exclusive}) = subprocsAllowed
    /\ \E m \in Names : ~graph[m].exclusive /\ task[m].pc = "waiting"

\* C4: a node whose rule lacks E and one of whose prerequisites is Failed does
\* not go on to its recipe, and ends Failed.
C4_FailedPrereqStops ==
    [][\A n \in Names :
          (/\ graph[n].hasRule /\ ~graph[n].nonstop
           /\ \E p \in Range(Prereqs(n)) : status[p] = nodeStatusFailed)
          => /\ task[n].pc \notin InRecipe => task'[n].pc \notin InRecipe
             /\ task[n].pc # "notify" /\ task'[n].pc = "notify"
                   => task'[n].finalstatus = nodeStatusFailed]_vars

\* C5: the process exits with code 1 when some node ended Failed (and so with
\* code 0 only when none did).
C5_ExitCode ==
    exitcode # RUNNING /\ (\E n \in Names : status[n] = nodeStatusFailed) => exitcode = 1

\* the step of mkNode that stats the target and decides on uptodate
CheckStep(n) == task[n].pc = "check" /\ task'[n].pc # "check"

\* the target of n is a file that exists, newer than every prerequisite, not forced
NewerThanPrereqs(n) ==
    /\ graph[n].hasRule /\ ~graph[n].virtual
    /\ fexists[n]
    /\ \A p \in Range(Prereqs(n)) : ftime[n] > t[p]
    /\ ~Forced(n)

RecipeWasRun(n) ==
    (/\ task[n].pc # "notify" /\ task'[n].pc = "notify"
     /\ graph[n].hasRule /\ graph[n].recipe /\ ~task'[n].uptodate)
    => task[n].pc = "finish" /\ runs[n] > 0

C8_DeleteOnFailure ==
    \A n \in Names :
        graph[n].delFailed /\ status[n] = nodeStatusFailed => ~fexists[n]


(***************************************************************************)
(* The second generation: rules as parseRule builds them and rule          *)
(* selection (src/reader.go, src/graph.go).  A string is a sequence of     *)
(* one-character strings.                                                  *)
(***************************************************************************)
\* strings.Index for a one-byte separator: 0 when sep does not occur
IndexByte(s, sep) ==
    IF \E i \in 1..Len(s) : s[i] = sep
    THEN CHOOSE i \in 1..Len(s) : s[i] = sep /\ \A j \in 1..(i - 1) : s[j] # sep
    ELSE 0

\* strings.Cut(s, sep)
Cut(s, sep) ==
    LET i == IndexByte(s, sep)
    IN  IF i = 0
        THEN [before |-> s, after |-> <<>>, found |-> FALSE]
        ELSE [before |-> SubSeq(s, 1, i - 1), after |-> SubSeq(s, i + 1, Len(s)), found |-> TRUE]

HasPrefix(s, pre) == Len(pre) <= Len(s) /\ SubSeq(s, 1, Len(pre)) = pre

HasSuffix(s, post) == Len(post) <= Len(s) /\ SubSeq(s, Len(s) - Len(post) + 1, Len(s)) = post

\* regexp.FindStringSubmatch for patterns of literal characters and ".": the
\* leftmost match; the result is the list of the whole match (no groups)
RegexMatchAt(pat, input, i) ==
    /\ i + Len(pat) <= Len(input)
    /\ \A k \in 1..Len(pat) : pat[k] = "." \/ pat[k] = input[i + k]

FindStringSubmatch(pat, input) ==
    IF \E i \in 0..Len(input) : RegexMatchAt(pat, input, i)
    THEN LET i == CHOOSE i \in 0..Len(input) :
                      /\ RegexMatchAt(pat, input, i)
                      /\ \A j \in 0..(i - 1) : ~RegexMatchAt(pat, input, j)
         IN  [found |-> TRUE, m |-> <<SubSeq(input, i + 1, i + Len(pat))>>]
    ELSE [found |-> FALSE, m |-> <<>>]

\* RuleAttr
RuleMeta == "RuleMeta"
RuleRegex == "RuleRegex"

\* CompileTarget: the Target of a pattern; its match closure is given by kind,
\* pre and post
CompileTarget(pat, isregex) ==
    IF isregex
    THEN [pat |-> pat, kind |-> "regex", pre |-> <<>>, post |-> <<>>, constant |-> FALSE]
    ELSE IF Cut(pat, "%").found
    THEN [pat |-> pat, kind |-> "stem", pre |-> Cut(pat, "%").before,
          post |-> Cut(pat, "%").after, constant |-> FALSE]
    ELSE IF Cut(pat, "&").found
    THEN [pat |-> pat, kind |-> "stem", pre |-> Cut(pat, "&").before,
          post |-> Cut(pat, "&").after, constant |-> FALSE]
    ELSE [pat |-> pat, kind |-> "const", pre |-> <<>>, post |-> <<>>, constant |-> TRUE]

NoMatch == [stem |-> <<>>, subm |-> <<>>, ok |-> FALSE, panic |-> FALSE]

\* Target.match: the closures of CompileTarget.  input[prelen : len(input)-postlen]
\* panics (slice bounds out of range) when the prefix and the suffix overlap
match(tg, input) ==
    CASE tg.kind = "regex" ->
            LET f == FindStringSubmatch(tg.pat, input)
            IN  [stem |-> <<>>, subm |-> f.m, ok |-> f.found, panic |-> FALSE]
      [] tg.kind = "stem" ->
            IF HasPrefix(input, tg.pre) /\ HasSuffix(input, tg.post)
            THEN IF Len(tg.pre) > Len(input) - Len(tg.post)
                 THEN [stem |-> <<>>, subm |-> <<>>, ok |-> FALSE, panic |-> TRUE]
                 ELSE [stem |-> SubSeq(input, Len(tg.pre) + 1, Len(input) - Len(tg.post)),
                       subm |-> <<>>, ok |-> TRUE, panic |-> FALSE]
            ELSE NoMatch
      [] tg.kind = "const" ->
            [stem |-> <<>>, subm |-> <<>>, ok |-> input = tg.pat, panic |-> FALSE]

\* the text of a recipe
SomeRecipe == <<"x">>

\* parseRule up to the merge and the recipe lines of parseLine: the rule of a
\* line with one target word, the attribute R or none and the prerequisite
\* words, with the text of its recipe
NewRule(pat, isregex, prereqs, recipe) ==
    LET tg == CompileTarget(pat, isregex)
    IN  [attrs |-> (IF isregex THEN {RuleRegex} ELSE {}) \cup (IF tg.constant THEN {} ELSE {RuleMeta}),
         targets |-> <<tg>>,
         prereqs |-> prereqs,
         program |-> <<>>,
         recipe |-> recipe]

\* FindRule: the first rule, in the order of g.rules, with a target that
\* matches; r = 0 is the nil rule
RECURSIVE FindRuleFrom(_, _, _, _)
FindRuleFrom(rs, target, i, j) ==
    IF i > Len(rs)
    THEN [r |-> 0, stem |-> <<>>, subm |-> <<>>, panic |-> FALSE]
    ELSE IF j > Len(rs[i].targets)
    THEN FindRuleFrom(rs, target, i + 1, 1)
    ELSE LET m == match(rs[i].targets[j], target)
         IN  IF m.panic
             THEN [r |-> 0, stem |-> <<>>, subm |-> <<>>, panic |-> TRUE]
             ELSE IF m.ok
             THEN [r |-> i, stem |-> m.stem, subm |-> m.subm, panic |-> FALSE]
             ELSE FindRuleFrom(rs, target, i, j + 1)

FindRule(rs, target) == FindRuleFrom(rs, target, 1, 1)

(***************************************************************************)
(* Rule selection on its own: every list of at most MaxRules rules with    *)
(* distinct target patterns (parseRule merges or rejects a second rule     *)
(* with the patterns of an earlier one), every name.                       *)
(***************************************************************************)
MaxRules == 2

FindPats ==
    {<<"a", ".", "o">>, <<"b">>, <<"%", ".", "o">>, <<"a", "%">>, <<"a", "%", "a">>}

FindRegexes == {<<"a", ".">>, <<".", "o">>}

FindNames == {<<"a", ".", "o">>, <<"b">>, <<"a">>, <<"a", "a">>}

FindRules ==
    {NewRule(p, FALSE, <<>>, SomeRecipe) : p \in FindPats} \cup
    {NewRule(p, TRUE, <<>>, SomeRecipe) : p \in FindRegexes}

FindRuleLists ==
    {rs \in UNION {[1..k -> FindRules] : k \in 1..MaxRules} :
        \A i, j \in 1..Len(rs) : i # j => rs[i].targets[1].pat # rs[j].targets[1].pat}

\* the scheduler does not run
SchedOff ==
    /\ graph = MkAttrs
    /\ dryrun = FALSE /\ rebuildall = FALSE /\ rebuildtargets = {}
    /\ subprocsAllowed = 1
    /\ status = [n \in Names |-> nodeStatusReady]
    /\ listeners = [n \in Names |-> <<>>]
    /\ locked = [n \in Names |-> FALSE]
    /\ fexists = [n \in Names |-> FALSE]
    /\ ftime = [n \in Names |-> 0]
    /\ exists = fexists
    /\ t = ftime
    /\ clock = MaxTime + 1
    /\ spawned = [n \in Names |-> [r \in BOOLEAN |-> 0]]
    /\ task = [n \in Names |-> Idle]
    /\ subprocsRunning = 0
    /\ condWaiters = {}
    /\ condL = NONE
    /\ exclusiveSubproc = NONE
    /\ runs = [n \in Names |-> 0]
    /\ exitcode = 0

sched ==
    <<graph, dryrun, rebuildall, rebuildtargets, subprocsAllowed, status, listeners,
      locked, exists, t, fexists, ftime, clock, spawned, task, subprocsRunning,
      condWaiters, condL, exclusiveSubproc, runs, exitcode>>

InitFind ==
    /\ SchedOff
    /\ BuildOff
    /\ arg \in [rules : FindRuleLists, target : FindNames]
    /\ res = <<>>

CallFindRule ==
    /\ res = <<>>
    /\ res' = FindRule(arg.rules, arg.target)
    /\ UNCHANGED <<arg, sched, build>>

NextFind == CallFindRule

SpecFind == InitFind /\ [][NextFind]_vars

\* the rules of arg.rules with a constant target equal to arg.target
LiteralRules ==
    {i \in 1..Len(arg.rules) :
        arg.rules[i].targets[1].constant /\ arg.rules[i].targets[1].pat = arg.target}

\* the meta-rules of arg.rules that match arg.target
MatchingMetaRules ==
    {i \in 1..Len(arg.rules) :
        /\ RuleMeta \in arg.rules[i].attrs
        /\ match(arg.rules[i].targets[1], arg.target).ok}

\* C10: when a literal rule and a meta-rule both match the target, FindRule
\* returns the literal rule, in whatever order the two were defined.
C10_LiteralWins ==
    res # <<>> /\ LiteralRules # {} /\ MatchingMetaRules # {} => res.r \in LiteralRules


(***************************************************************************)
(* The Graph run: main, Graph.Build, Graph.BuildRule (src/main.go,         *)
(* src/graph.go).  A call of Build, with the call of BuildRule it makes,   *)
(* is a frame, named by its path in the call tree: <<k>> is the call main  *)
(* makes for its k-th argument (<<0>> the BuildRule of the default rule),  *)
(* f \o <<k>> the goroutine frame f starts for its k-th prerequisite.      *)
(* A slice is a backing array, a length and a capacity; append writes in   *)
(* place while the capacity allows and allocates a doubled array           *)
(* otherwise, so slices handed to several goroutines share a slot that     *)
(* each of them writes.  The prerequisite names of a run have one length,   *)
(* so a torn read of a string being written is one of the two values.      *)
(* An error is the list of its message lines, nil the empty list.          *)
(***************************************************************************)
Nil == <<>>

NilSlice == [arr |-> Nil, len |-> 0, cap |-> 0]

DefaultName == <<"<", "d", "e", "f", "a", "u", "l", "t", ">">>

\* the elements of a slice, read from its backing array
Elems(sl) == IF sl.len = 0 THEN <<>> ELSE SubSeq(arrays[sl.arr], 1, sl.len)

\* the slice append(sl, x) returns when frame f calls it
Appended(f, sl) ==
    IF sl.len < sl.cap
    THEN [arr |-> sl.arr, len |-> sl.len + 1, cap |-> sl.cap]
    ELSE [arr |-> f, len |-> sl.len + 1, cap |-> IF sl.cap = 0 THEN 1 ELSE 2 * sl.cap]

\* the backing arrays after frame f has called append(sl, x); the slots of a
\* new array beyond its length hold the empty string
ArraysAppended(f, sl, x) ==
    IF sl.len < sl.cap
    THEN [arrays EXCEPT ![sl.arr][sl.len + 1] = x]
    ELSE [id \in DOMAIN arrays \cup {f} |->
            IF id = f
            THEN [i \in 1..Appended(f, sl).cap |->
                    IF i <= sl.len THEN Elems(sl)[i] ELSE IF i = sl.len + 1 THEN x ELSE <<>>]
            ELSE arrays[id]]

\* slices.Contains
Contains(seq, x) == \E i \in 1..Len(seq) : seq[i] = x

\* strings.Join(elems, "->")
RECURSIVE Join(_)
Join(elems) ==
    IF Len(elems) = 0 THEN <<>>
    ELSE IF Len(elems) = 1 THEN elems[1]
    ELSE elems[1] \o <<"-", ">">> \o Join(Tail(elems))

\* strings.ReplaceAll for a non-empty old
RECURSIVE ReplaceAll(_, _, _)
ReplaceAll(str, old, new) ==
    IF Len(str) < Len(old) THEN str
    ELSE IF SubSeq(str, 1, Len(old)) = old
    THEN new \o ReplaceAll(SubSeq(str, Len(old) + 1, Len(str)), old, new)
    ELSE <<str[1]>> \o ReplaceAll(Tail(str), old, new)

Digit(i) == <<"0", "1", "2", "3", "4", "5", "6", "7", "8", "9">>[i + 1]

\* the loop over subm of BuildRule: \0, \1, ... replaced by the submatches
RECURSIVE ReplaceSubm(_, _, _)
ReplaceSubm(str, subm, i) ==
    IF i >= Len(subm) THEN str
    ELSE ReplaceSubm(ReplaceAll(str, <<"\\", Digit(i)>>, subm[i + 1]), subm, i + 1)

\* the prerequisite of BuildRule after the replacement of the stem and the submatches
Expanded(in, stem, subm) ==
    ReplaceSubm(IF stem # <<>> THEN ReplaceAll(in, <<"%">>, stem) ELSE in, subm, 0)

\* the errors of the run
CircularError(history) == <<[kind |-> "circular dependency: ", text |-> Join(history)]>>

DontKnowError(target) == <<[kind |-> "don't know how to make", text |-> target]>>

UnableError(r) == <<[kind |-> "unable to build", text |-> r]>>

\* errors.Join: nil when every error is nil, the lines of the others otherwise
RECURSIVE ErrorsJoin(_)
ErrorsJoin(errs) == IF errs = <<>> THEN Nil ELSE Head(errs) \o ErrorsJoin(Tail(errs))

\* os.Stat: the modification time, 0 when the file is missing
Stat(name) == IF name \in DOMAIN mtime THEN mtime[name] ELSE 0

\* isOutdated
isOutdated(target, prereqs) ==
    \/ Stat(target) = 0
    \/ \E i \in 1..Len(prereqs) : Stat(prereqs[i]) = 0 \/ Stat(prereqs[i]) > Stat(target)

\* Graph.DefaultTarget: the first rule without RuleMeta, 0 when there is none
DefaultTarget ==
    IF \E i \in 1..Len(rules) : RuleMeta \notin rules[i].attrs
    THEN CHOOSE i \in 1..Len(rules) :
            /\ RuleMeta \notin rules[i].attrs
            /\ \A j \in 1..(i - 1) : RuleMeta \in rules[j].attrs
    ELSE 0

NoFrames == [id \in {} |-> Nil]

\* a call that has not started: Build(history, target) or, with a rule,
\* BuildRule(r, history, target, "", nil); path is the list of the targets of
\* the calls it is nested in
Frame(pc, target, history, r, path) ==
    [pc |-> pc, target |-> target, history |-> history, mine |-> NilSlice, r |-> r,
     stem |-> <<>>, subm |-> <<>>, prereqs |-> <<>>, errs |-> <<>>, path |-> path]

Parent(f) == SubSeq(f, 1, Len(f) - 1)

\* the loop of main over flag.Args(), from the k-th argument on
MainLoop(k) ==
    IF k > Len(args)
    THEN /\ frames' = NoFrames
         /\ exit' = 0
         /\ stderr' = stderr
    ELSE /\ frames' = [id \in {<<k>>} |-> Frame("Build", args[k], NilSlice, 0, <<>>)]
         /\ UNCHANGED <<exit, stderr>>

\* frame f returns err: to main, which prints an error and exits with 1, or to
\* the goroutine of the parent, which appends it to errs under mu
Return(f, err) ==
    /\ arrays' = [id \in DOMAIN arrays \ {f} |-> arrays[id]]
    /\ IF Len(f) = 1
       THEN IF err # Nil
            THEN /\ frames' = NoFrames
                 /\ stderr' = err
                 /\ exit' = 1
            ELSE MainLoop(f[1] + 1)
       ELSE /\ frames' = [id \in DOMAIN frames \ {f} |->
                            IF id = Parent(f)
                            THEN [frames[id] EXCEPT !.errs = Append(@, err)]
                            ELSE frames[id]]
            /\ UNCHANGED <<exit, stderr>>

\* main after parseFile
main ==
    /\ exit = RUNNING
    /\ DOMAIN frames = {}
    /\ IF Len(args) = 0
       THEN IF DefaultTarget = 0
            THEN /\ exit' = 1
                 /\ stderr' = <<[kind |-> "mk: nothing to mk", text |-> <<>>]>>
                 /\ UNCHANGED frames
            ELSE /\ frames' = [id \in {<<0>>} |->
                                 Frame("BuildRule", DefaultName, NilSlice, DefaultTarget, <<>>)]
                 /\ UNCHANGED <<exit, stderr>>
       ELSE MainLoop(1)
    /\ UNCHANGED <<rules, args, mtime, gclock, arrays, ran>>
    /\ UNCHANGED <<arg, res, sched>>

\* BuildRule from its entry to wg.Wait: the check of the history, the append
\* and the goroutines of the prerequisites
Enter(f, r, stem, subm) ==
    LET fr == frames[f]
        mine == Appended(f, fr.history)
        prereqs == [i \in 1..Len(rules[r].prereqs) |-> Expanded(rules[r].prereqs[i], stem, subm)]
        started == {f \o <<k>> : k \in 1..Len(prereqs)}
    IN  /\ arrays' = ArraysAppended(f, fr.history, fr.target)
        /\ IF Contains(Elems(fr.history), fr.target)
           THEN frames' = [frames EXCEPT ![f] = [fr EXCEPT !.pc = "circular", !.mine = mine, !.r = r]]
           ELSE frames' = [id \in DOMAIN frames \cup started |->
                    IF id = f
                    THEN [fr EXCEPT !.pc = "wait", !.mine = mine, !.r = r, !.stem = stem,
                                    !.subm = subm, !.prereqs = prereqs]
                    ELSE IF id \in DOMAIN frames
                    THEN frames[id]
                    ELSE Frame("Build", prereqs[id[Len(id)]], mine, 0, Append(fr.path, fr.target))]
        /\ UNCHANGED <<exit, stderr>>

\* Graph.Build; with a rule it goes on into BuildRule.  A panic of a match
\* ends the process with exit code 2
Build(f) ==
    /\ f \in DOMAIN frames
    /\ frames[f].pc = "Build"
    /\ LET found == FindRule(rules, frames[f].target)
       IN  IF found.panic
           THEN /\ frames' = NoFrames
                /\ arrays' = NoFrames
                /\ exit' = 2
                /\ stderr' = <<[kind |-> "panic", text |-> frames[f].target]>>
           ELSE IF found.r # 0
           THEN Enter(f, found.r, found.stem, found.subm)
           ELSE IF Stat(frames[f].target) # 0
           THEN Return(f, Nil)
           ELSE Return(f, DontKnowError(frames[f].target))
    /\ UNCHANGED <<rules, args, mtime, gclock, ran>>
    /\ UNCHANGED <<arg, res, sched>>

\* the call BuildRule(r, nil, "<default>", "", nil) of main
BuildRule(f) ==
    /\ f \in DOMAIN frames
    /\ frames[f].pc = "BuildRule"
    /\ Enter(f, frames[f].r, <<>>, <<>>)
    /\ UNCHANGED <<rules, args, mtime, gclock, ran>>
    /\ UNCHANGED <<arg, res, sched>>

\* BuildRule line 134: the error of a target found in the history, built from
\* the history after the append
Circular(f) ==
    /\ f \in DOMAIN frames
    /\ frames[f].pc = "circular"
    /\ Return(f, CircularError(Elems(frames[f].mine)))
    /\ UNCHANGED <<rules, args, mtime, gclock, ran>>
    /\ UNCHANGED <<arg, res, sched>>

\* BuildRule after wg.Wait, up to the start of the recipe
Wait(f) ==
    /\ f \in DOMAIN frames
    /\ frames[f].pc = "wait"
    /\ Len(frames[f].errs) = Len(frames[f].prereqs)
    /\ LET fr == frames[f]
       IN  IF Len(fr.errs) > 0
           THEN Return(f, ErrorsJoin(fr.errs))
           ELSE IF ~isOutdated(fr.target, fr.prereqs)
           THEN Return(f, Nil)
           ELSE IF Len(rules[fr.r].recipe) = 0
           THEN Return(f, Nil)
           ELSE /\ frames' = [frames EXCEPT ![f].pc = "recipe"]
                /\ UNCHANGED <<arrays, exit, stderr>>
    /\ UNCHANGED <<rules, args, mtime, gclock, ran>>
    /\ UNCHANGED <<arg, res, sched>>

\* cmd.Run of the recipe: it succeeds or fails and writes its target or not
Recipe(f) ==
    /\ f \in DOMAIN frames
    /\ frames[f].pc = "recipe"
    /\ \E ok \in BOOLEAN, touch \in BOOLEAN :
        /\ ran' = Append(ran, [r |-> frames[f].r, target |-> frames[f].target])
        /\ IF touch
           THEN /\ mtime' = [n \in DOMAIN mtime \cup {frames[f].target} |->
                                IF n = frames[f].target THEN gclock ELSE mtime[n]]
                /\ gclock' = gclock + 1
           ELSE UNCHANGED <<mtime, gclock>>
        /\ Return(f, IF ok THEN Nil ELSE UnableError(frames[f].r))
    /\ UNCHANGED <<rules, args>>
    /\ UNCHANGED <<arg, res, sched>>

(***************************************************************************)
(* The mkfiles and command lines of the Graph run.                         *)
(***************************************************************************)
\* a: b / b: a
GCycle ==
    [rules |-> <<NewRule(<<"a">>, FALSE, <<<<"b">>>>, SomeRecipe),
                 NewRule(<<"b">>, FALSE, <<<<"a">>>>, SomeRecipe)>>,
     names |-> {<<"a">>, <<"b">>},
     args |-> {<<>>, <<<<"a">>>>}]

\* a: b / b: c / c: d e / d: c / e:
GSiblings ==
    [rules |-> <<NewRule(<<"a">>, FALSE, <<<<"b">>>>, SomeRecipe),
                 NewRule(<<"b">>, FALSE, <<<<"c">>>>, SomeRecipe),
                 NewRule(<<"c">>, FALSE, <<<<"d">>, <<"e">>>>, SomeRecipe),
                 NewRule(<<"d">>, FALSE, <<<<"c">>>>, SomeRecipe),
                 NewRule(<<"e">>, FALSE, <<>>, SomeRecipe)>>,
     names |-> {<<"a">>, <<"e">>},
     args |-> {<<<<"a">>>>}]

\* a: b c / b: d / c: d / d:
GDiamond ==
    [rules |-> <<NewRule(<<"a">>, FALSE, <<<<"b">>, <<"c">>>>, SomeRecipe),
                 NewRule(<<"b">>, FALSE, <<<<"d">>>>, SomeRecipe),
                 NewRule(<<"c">>, FALSE, <<<<"d">>>>, SomeRecipe),
                 NewRule(<<"d">>, FALSE, <<>>, SomeRecipe)>>,
     names |-> {<<"a">>, <<"d">>},
     args |-> {<<>>, <<<<"a">>>>, <<<<"d">>, <<"a">>>>}]

\* %.o: %.c, with or without the source file a.c
GMeta ==
    [rules |-> <<NewRule(<<"%", ".", "o">>, FALSE, <<<<"%", ".", "c">>>>, SomeRecipe)>>,
     names |-> {<<"a", ".", "o">>, <<"a", ".", "c">>},
     args |-> {<<>>, <<<<"a", ".", "o">>>>}]

\* a: b / b: c / c: d e / d: e x / x: d / e:
GShared ==
    [rules |-> <<NewRule(<<"a">>, FALSE, <<<<"b">>>>, SomeRecipe),
                 NewRule(<<"b">>, FALSE, <<<<"c">>>>, SomeRecipe),
                 NewRule(<<"c">>, FALSE, <<<<"d">>, <<"e">>>>, SomeRecipe),
                 NewRule(<<"d">>, FALSE, <<<<"e">>, <<"x">>>>, SomeRecipe),
                 NewRule(<<"x">>, FALSE, <<<<"d">>>>, SomeRecipe),
                 NewRule(<<"e">>, FALSE, <<>>, SomeRecipe)>>,
     names |-> {<<"e">>},
     args |-> {<<<<"a">>>>}]

Runs == {GCycle, GSiblings, GDiamond, GMeta, GShared}

InitGraph ==
    /\ SchedOff
    /\ NoCall
    /\ \E run \in Runs :
        /\ rules = run.rules
        /\ args \in run.args
        /\ mtime \in [run.names -> 0..MaxTime]
    /\ gclock = MaxTime + 1
    /\ frames = NoFrames
    /\ arrays = NoFrames
    /\ ran = <<>>
    /\ stderr = Nil
    /\ exit = RUNNING

\* the call paths of the running calls
FrameIds == DOMAIN frames

NextGraph ==
    \/ main
    \/ \E f \in FrameIds : Build(f)
    \/ \E f \in FrameIds : BuildRule(f)
    \/ \E f \in FrameIds : Circular(f)
    \/ \E f \in FrameIds : Wait(f)
    \/ \E f \in FrameIds : Recipe(f)

SpecGraph == InitGraph /\ [][NextGraph]_vars

TypeOKGraph ==
    /\ exit \in {RUNNING, 0, 1, 2}
    /\ DOMAIN arrays \subseteq DOMAIN frames
    /\ \A f \in DOMAIN frames : frames[f].pc \in {"Build", "BuildRule", "circular", "wait", "recipe"}

(***************************************************************************)
(* Properties of the Graph run.                                            *)
(***************************************************************************)
\* the target of frame f is already on its resolution path
OnCycle(f) == Contains(frames[f].path, frames[f].target)

\* the rules of the calls on the cycle that frame f closes: those from the
\* earlier call for its target down to its parent
CycleRules(f) ==
    {frames[SubSeq(f, 1, k)].r : k \in {k \in 1..(Len(f) - 1) :
        \E j \in 1..k : frames[f].path[j] = frames[f].target}}

\* C9: a call for a target that is already on its resolution path fails with
\* "circular dependency: " and the path joined with "->", ending in the repeated
\* name, and no recipe of a rule on the cycle has run.
C9_CircularDependency ==
    \A f \in DOMAIN frames :
        OnCycle(f) =>
            /\ frames[f].pc \in {"Build", "circular"}
            /\ frames[f].pc = "circular" =>
                   CircularError(Elems(frames[f].mine)) =
                       CircularError(Append(frames[f].path, frames[f].target))
            /\ \A i \in 1..Len(ran) : ran[i].r \notin CycleRules(f)


(***************************************************************************)
(* A % target on its own: CompileTarget, the match of a name and the       *)
(* replacement BuildRule makes in a prerequisite.                          *)
(***************************************************************************)
StemPats ==
    {<<"%", ".", "o">>, <<"a", "%">>, <<"a", "%", "a">>, <<"%">>, <<"a", "%", ".", "o">>}

StemNames ==
    {<<"f", ".", "o">>, <<".", "o">>, <<"a">>, <<"a", "a">>, <<"a", "b", "a">>,
     <<"a", ".", "o">>, <<"a", "f", ".", "o">>, <<"f", ".", "c">>}

StemPrereqs == {<<"%", ".", "c">>, <<"x">>, <<"%", "%">>}

InitStem ==
    /\ SchedOff
    /\ BuildOff
    /\ arg \in [pat : StemPats, name : StemNames, prereq : StemPrereqs]
    /\ res = <<>>

\* FindRule's t.match(target) for the one target, then the body of BuildRule's
\* loop for the one prerequisite; a panic ends the process before the loop
CallMatch ==
    /\ res = <<>>
    /\ LET m == match(CompileTarget(arg.pat, FALSE), arg.name)
       IN  res' = [m |-> m,
                   in |-> IF m.ok THEN Expanded(arg.prereq, m.stem, m.subm) ELSE <<>>]
    /\ UNCHANGED <<arg, sched, build>>

NextStem == CallMatch

SpecStem == InitStem /\ [][NextStem]_vars

\* the strings s with name = pre + s + post
Stems(pre, post, name) ==
    {s \in {SubSeq(name, i, j) : i \in 1..(Len(name) + 1), j \in 0..Len(name)} :
        name = pre \o s \o post}

\* C11: a name n matches the target pre%post iff n = pre + s + post for some s,
\* the match binds the stem s, and the prerequisite has % replaced by s.
C11_StemMatch ==
    res # <<>> =>
        LET c == Cut(arg.pat, "%")
            ss == Stems(c.before, c.after, arg.name)
        IN  /\ ~res.m.panic
            /\ res.m.ok <=> ss # {}
            /\ res.m.ok => /\ res.m.stem \in ss
                           /\ res.in = ReplaceAll(arg.prereq, <<"%">>, res.m.stem)


(***************************************************************************)
(* The line parser of the second generation: parseFile, parseLine,         *)
(* parseRule, parseAttributes (src/reader.go).  Positions are counted from *)
(* 1, and 0 stands for Go's -1.  The lines of the model hold no $ and no   *)
(* backquote, for which Graph.expand is strings.TrimSpace, no = and no <   *)
(* outside a comment, and do not end in a backslash.                       *)
(***************************************************************************)
\* the backquote character, which cannot be written in a string here
Backquote == "BACKQUOTE"

Quotes == {"\"", "'", Backquote}

IsSpace(c) == c \in {" ", "\t", "\n", "\r"}

RECURSIVE TrimLeft(_)
TrimLeft(text) == IF text # <<>> /\ IsSpace(Head(text)) THEN TrimLeft(Tail(text)) ELSE text

RECURSIVE TrimRight(_)
TrimRight(text) ==
    IF text # <<>> /\ IsSpace(text[Len(text)])
    THEN TrimRight(SubSeq(text, 1, Len(text) - 1))
    ELSE text

\* strings.TrimSpace
TrimSpace(text) == TrimRight(TrimLeft(text))

\* strings.Fields: the maximal runs of characters that are not white space
RECURSIVE Fields(_)
Fields(text) ==
    LET rest == TrimLeft(text)
        n == IF \E i \in 1..Len(rest) : IsSpace(rest[i])
             THEN (CHOOSE i \in 1..Len(rest) :
                      IsSpace(rest[i]) /\ \A j \in 1..(i - 1) : ~IsSpace(rest[j])) - 1
             ELSE Len(rest)
    IN  IF rest = <<>> THEN <<>>
        ELSE <<SubSeq(rest, 1, n)>> \o Fields(SubSeq(rest, n + 1, Len(rest)))

\* findNextUnquoted from position i on, inQuote the open quote or ""
RECURSIVE findNextUnquotedFrom(_, _, _, _)
findNextUnquotedFrom(text, chrs, i, inQuote) ==
    IF i > Len(text) THEN [ch |-> "", idx |-> 0]
    ELSE IF inQuote = "" /\ text[i] \in Quotes
    THEN findNextUnquotedFrom(text, chrs, i + 1, text[i])
    ELSE IF inQuote = text[i]
    THEN findNextUnquotedFrom(text, chrs, i + 1, "")
    ELSE IF inQuote = "" /\ text[i] \in chrs
    THEN [ch |-> text[i], idx |-> i]
    ELSE findNextUnquotedFrom(text, chrs, i + 1, inQuote)

findNextUnquoted(text, chrs) == findNextUnquotedFrom(text, chrs, 1, "")

\* Graph.expand for a text without $ and without backquotes
expand(text) == TrimSpace(text)

\* RuleAttr
RuleDelete == "RuleDelete"
RuleContinue == "RuleContinue"
RuleAlwaysUpdate == "RuleAlwaysUpdate"
RuleQuiet == "RuleQuiet"
RuleNoValidate == "RuleNoValidate"
RuleVirtual == "RuleVirtual"

\* the flag each letter of the switch of parseAttributes sets
AttrOf(c) ==
    CASE c = "D" -> RuleContinue
      [] c = "E" -> RuleDelete
      [] c = "N" -> RuleAlwaysUpdate
      [] c = "n" -> RuleMeta
      [] c = "Q" -> RuleQuiet
      [] c = "R" -> RuleRegex
      [] c = "U" -> RuleNoValidate
      [] c = "V" -> RuleVirtual

AttrLetters == {"D", "E", "N", "n", "Q", "R", "U", "V"}

InvalidAttribute(c) == <<[kind |-> "invalid rule-attribute", text |-> <<c>>]>>

\* Rule.parseAttributes: the loop, from the attributes and the program so far
RECURSIVE parseAttributes(_, _, _)
parseAttributes(attrs, program, text) ==
    IF ~Contains(text, ":")
    THEN [attrs |-> attrs, program |-> program, text |-> text, err |-> Nil]
    ELSE IF text[1] \in AttrLetters
    THEN parseAttributes(attrs \cup {AttrOf(text[1])}, program, Tail(text))
    ELSE IF text[1] = "P"
    THEN parseAttributes(attrs, SubSeq(text, 1, IndexByte(text, ":") - 1),
                         SubSeq(text, IndexByte(text, ":"), Len(text)))
    ELSE IF text[1] = ":"
    THEN parseAttributes(attrs, program, Tail(text))
    ELSE IF text[1] \in {" ", "\t"}
    THEN [attrs |-> attrs, program |-> program, text |-> text, err |-> Nil]
    ELSE [attrs |-> attrs, program |-> program, text |-> <<>>, err |-> InvalidAttribute(text[1])]

\* the loops of parseRule over strings.Fields: the expanded words that are not empty
RECURSIVE Words(_)
Words(fields) ==
    IF fields = <<>> THEN <<>>
    ELSE IF expand(Head(fields)) = <<>> THEN Words(Tail(fields))
    ELSE <<expand(Head(fields))>> \o Words(Tail(fields))

AmbiguousRecipe(pat) == <<[kind |-> "ambiguous recipe for target", text |-> pat]>>

\* the loop rulescan of parseRule from the i-th rule on, and the append after it
RECURSIVE rulescan(_, _, _)
rulescan(rs, r, i) ==
    IF i > Len(rs) THEN [rules |-> Append(rs, r), err |-> Nil]
    ELSE IF ~(/\ Len(r.targets) = Len(rs[i].targets)
              /\ \A j \in 1..Len(r.targets) : r.targets[j].pat = rs[i].targets[j].pat)
    THEN rulescan(rs, r, i + 1)
    ELSE LET hasRecipeA == TrimSpace(rs[i].recipe) # <<>>
             hasRecipeB == TrimSpace(r.recipe) # <<>>
             samePrereqs == rs[i].prereqs = r.prereqs
         IN  IF ~hasRecipeA /\ hasRecipeB
             THEN [rules |-> [rs EXCEPT ![i].prereqs = @ \o r.prereqs], err |-> Nil]
             ELSE IF hasRecipeA /\ hasRecipeB /\ ~samePrereqs
             THEN [rules |-> rs, err |-> AmbiguousRecipe(r.targets[1].pat)]
             ELSE IF samePrereqs
             THEN [rules |-> [rs EXCEPT ![i] = r], err |-> Nil]
             ELSE rulescan(rs, r, i + 1)

\* the rule parseRule builds from a line with its first unquoted : at idx
RuleOfLine(line, idx) ==
    LET pa == parseAttributes({}, <<>>, SubSeq(line, idx + 1, Len(line)))
        names == Words(Fields(TrimSpace(SubSeq(line, 1, idx - 1))))
        targets == [i \in 1..Len(names) |-> CompileTarget(names[i], RuleRegex \in pa.attrs)]
    IN  [attrs |-> pa.attrs \cup
                   (IF \E i \in 1..Len(targets) : ~targets[i].constant THEN {RuleMeta} ELSE {}),
         targets |-> targets,
         prereqs |-> Words(Fields(TrimSpace(pa.text))),
         program |-> pa.program,
         recipe |-> <<>>]

\* Graph.parseRule
parseRule(rs, line, idx) ==
    LET pa == parseAttributes({}, <<>>, SubSeq(line, idx + 1, Len(line)))
    IN  IF pa.err # Nil
        THEN [rules |-> rs, err |-> pa.err]
        ELSE rulescan(rs, RuleOfLine(line, idx), 1)

\* the line without its comment
Uncommented(line) ==
    IF findNextUnquoted(line, {"#"}).idx # 0
    THEN SubSeq(line, 1, findNextUnquoted(line, {"#"}).idx - 1)
    ELSE line

SyntaxError == <<[kind |-> "syntax error; expected one of <:=", text |-> <<>>]>>

\* Graph.parseLine
parseLine(rs, fullline) ==
    LET line == Uncommented(fullline)
        last == Len(rs)
    IN  IF TrimSpace(line) = <<>>
        THEN [rules |-> rs, err |-> Nil]
        ELSE IF Len(rs) > 0 /\ line[1] \in {" ", "\t"}
        THEN [rules |-> [rs EXCEPT ![last].recipe =
                            (IF Len(@) > 0 THEN @ \o <<"\n">> ELSE @) \o Tail(line)],
              err |-> Nil]
        ELSE IF findNextUnquoted(line, {":", "<", "="}).ch = ":"
        THEN parseRule(rs, line, findNextUnquoted(line, {":", "<", "="}).idx)
        ELSE [rules |-> rs, err |-> SyntaxError]

(***************************************************************************)
(* parseFile over every mkfile of at most MaxLines lines.                  *)
(***************************************************************************)
MaxLines == 4

ParseLines ==
    {<<"a", ":", " ", "b">>,
     <<"a", ":", " ", "c">>,
     <<"b", ":">>,
     <<"\t", "x">>,
     <<":", " ", "b">>,
     <<"a", ":", "D", ":", " ", "b">>,
     <<"a", " ", "#", ":">>}

InitParse ==
    /\ SchedOff
    /\ BuildOff
    /\ arg \in [lines : UNION {[1..k -> ParseLines] : k \in 1..MaxLines}]
    /\ res = [rules |-> <<>>, linenr |-> 0, err |-> Nil]

\* one turn of the loop of parseFile
parseFile ==
    /\ res.err = Nil
    /\ res.linenr < Len(arg.lines)
    /\ LET out == parseLine(res.rules, arg.lines[res.linenr + 1])
       IN  res' = [rules |-> out.rules, linenr |-> res.linenr + 1, err |-> out.err]
    /\ UNCHANGED <<arg, sched, build>>

NextParse == parseFile

SpecParse == InitParse /\ [][NextParse]_vars


(***************************************************************************)
(* Properties of the line parser.                                          *)
(***************************************************************************)
\* the line is a rule header
IsHeader(line) ==
    /\ TrimSpace(Uncommented(line)) # <<>>
    /\ ~IsSpace(line[1])
    /\ findNextUnquoted(Uncommented(line), {":", "<", "="}).ch = ":"

\* the line is a recipe line when it follows a rule
IsRecipeLine(line) == TrimSpace(Uncommented(line)) # <<>> /\ line[1] \in {" ", "\t"}

\* the rule a header line states
HeaderOf(line) ==
    RuleOfLine(Uncommented(line), findNextUnquoted(Uncommented(line), {":", "<", "="}).idx)

\* the target list of a rule, as strings
TargetList(r) == [i \in 1..Len(r.targets) |-> r.targets[i].pat]

\* the rules of the rule set with the target list of the header line
RulesFor(line) ==
    {i \in 1..Len(res.rules) : TargetList(res.rules[i]) = TargetList(HeaderOf(line))}

\* the mkfile starts with a header with prerequisites and no recipe, then a
\* header with the same targets and a recipe line
MergeCase ==
    /\ Len(arg.lines) >= 3
    /\ IsHeader(arg.lines[1]) /\ IsHeader(arg.lines[2]) /\ IsRecipeLine(arg.lines[3])
    /\ TargetList(HeaderOf(arg.lines[1])) # <<>>
    /\ TargetList(HeaderOf(arg.lines[1])) = TargetList(HeaderOf(arg.lines[2]))
    /\ HeaderOf(arg.lines[1]).prereqs # <<>>

\* C12: a rule with a recipe added after a recipe-less rule with the same target
\* list and prerequisites leaves exactly one rule for those targets, with the
\* prerequisites of both and the recipe of the new one.
C12_MergeKeepsOne ==
    MergeCase /\ res.linenr = 3 =>
        /\ res.err = Nil
        /\ Cardinality(RulesFor(arg.lines[1])) = 1
        /\ \A i \in RulesFor(arg.lines[1]) :
            /\ Range(HeaderOf(arg.lines[1]).prereqs) \subseteq Range(res.rules[i].prereqs)
            /\ Range(HeaderOf(arg.lines[2]).prereqs) \subseteq Range(res.rules[i].prereqs)
            /\ res.rules[i].recipe = Tail(Uncommented(arg.lines[3]))

\* the mkfile starts with two rules with the same target list, different
\* prerequisite lists and a recipe each
AmbiguousCase ==
    /\ Len(arg.lines) >= 4
    /\ IsHeader(arg.lines[1]) /\ IsRecipeLine(arg.lines[2])
    /\ IsHeader(arg.lines[3]) /\ IsRecipeLine(arg.lines[4])
    /\ TargetList(HeaderOf(arg.lines[1])) # <<>>
    /\ TargetList(HeaderOf(arg.lines[1])) = TargetList(HeaderOf(arg.lines[3]))
    /\ HeaderOf(arg.lines[1]).prereqs # HeaderOf(arg.lines[3]).prereqs

\* C13: two rules with identical target lists, different prerequisite lists and
\* a recipe each are rejected with an "ambiguous recipe" error: the parse does
\* not get past the second rule without it.
C13_AmbiguousRejected ==
    AmbiguousCase =>
        /\ res.linenr = 4 => res.err # Nil
        /\ res.err # Nil => res.err = AmbiguousRecipe(TargetList(HeaderOf(arg.lines[1]))[1])

\* C14: after any sequence of successfully parsed statements every rule of the
\* rule set has at least one target.
C14_RuleHasTarget ==
    res.err = Nil => \A i \in 1..Len(res.rules) : Len(res.rules[i].targets) >= 1


(***************************************************************************)
(* The shell of a recipe in the first generation: parseAttribs and the     *)
(* fallback of parseRecipe (src/unnamed/part_003, src/parse.go), dorecipe  *)
(* and expandShell (src/recipe.go, src/unnamed/part_000).                  *)
(***************************************************************************)
\* the attribute each letter of the switch of parseAttribs sets
AttribOf(c) ==
    CASE c = "D" -> "delFailed"
      [] c = "E" -> "nonstop"
      [] c = "N" -> "forcedTimestamp"
      [] c = "n" -> "nonvirtual"
      [] c = "Q" -> "quiet"
      [] c = "R" -> "regex"
      [] c = "U" -> "update"
      [] c = "V" -> "virtual"
      [] c = "X" -> "exclusive"

AttribLetters == {"D", "E", "N", "n", "Q", "R", "U", "V", "X"}

\* rule.parseAttribs from character pos of inputs[i] on; command and shell
\* are nil (the empty list) until P or S appends to them
RECURSIVE parseAttribsFrom(_, _, _, _)
parseAttribsFrom(r, inputs, i, pos) ==
    IF i > Len(inputs) THEN [r EXCEPT !.err = FALSE]
    ELSE IF pos > Len(inputs[i]) THEN parseAttribsFrom(r, inputs, i + 1, 1)
    ELSE LET c == inputs[i][pos]
             rest == (IF pos < Len(inputs[i])
                      THEN <<SubSeq(inputs[i], pos + 1, Len(inputs[i]))>> ELSE <<>>)
                     \o SubSeq(inputs, i + 1, Len(inputs))
         IN  IF c \in AttribLetters
             THEN parseAttribsFrom([r EXCEPT !.attributes = @ \cup {AttribOf(c)}], inputs, i, pos + 1)
             ELSE IF c = "P" THEN [r EXCEPT !.command = @ \o rest, !.err = FALSE]
             ELSE IF c = "S" THEN [r EXCEPT !.shell = @ \o rest, !.err = FALSE]
             ELSE [r EXCEPT !.err = TRUE]

parseAttribs(r, inputs) == parseAttribsFrom(r, inputs, 1, 1)

\* rule{}
EmptyRule == [attributes |-> {}, command |-> <<>>, shell |-> <<>>, err |-> FALSE]

\* parseRecipe lines 332-359: the attributes and the shell of the rule;
\* hasAttribs says that the rule line has a second colon
RuleShell(hasAttribs, attribs, varshell, default) ==
    IF hasAttribs
    THEN LET r == parseAttribs(EmptyRule, attribs)
         IN  IF r.shell = <<>>
             THEN IF Len(varshell) > 0 THEN varshell ELSE <<default>>
             ELSE r.shell
    ELSE <<>>

\* expandShell, with dontDropArgs = false; fields[0] of an empty command panics
expandShell(shcmd, shargs) ==
    LET fields == Fields(shcmd)
        shellargs == IF Len(fields) > 1 THEN Tail(fields) ELSE <<>>
    IN  IF fields = <<>>
        THEN [sh |-> <<>>, args |-> <<>>, panic |-> TRUE]
        ELSE [sh |-> fields[1],
              args |-> IF Len(shellargs) > 0 /\ Len(shargs) > 0 THEN shellargs \o shargs ELSE shargs,
              panic |-> FALSE]

\* dorecipe lines 89-93: the shell and its arguments
RecipeShell(rshell, default) ==
    IF Len(rshell) > 0
    THEN expandShell(rshell[1], Tail(rshell))
    ELSE expandShell(default, <<>>)

DefaultShells == {<<"s", "h", " ", "-", "c">>, <<"s", "h">>, <<"r", "c", " ", "-", "v">>}

VarShells == {<<>>, <<<<"r", "c">>>>, <<<<"r", "c">>, <<"-", "v">>>>, <<<<"k", "s", "h">>>>}

AttribWords ==
    {<<>>, <<<<"Q">>>>, <<<<"V", "X">>>>, <<<<"S", "r", "c">>>>, <<<<"S">>, <<"r", "c">>>>}

InitShell ==
    /\ SchedOff
    /\ BuildOff
    /\ arg \in [hasAttribs : BOOLEAN, attribs : AttribWords, varshell : VarShells,
                default : DefaultShells]
    /\ ~arg.hasAttribs => arg.attribs = <<>>
    /\ res = <<>>

\* the shell dorecipe runs for a rule parsed by parseRecipe
CallRecipeShell ==
    /\ res = <<>>
    /\ res' = RecipeShell(RuleShell(arg.hasAttribs, arg.attribs, arg.varshell, arg.default),
                          arg.default)
    /\ UNCHANGED <<arg, sched, build>>

NextShell == CallRecipeShell

SpecShell == InitShell /\ [][NextShell]_vars

\* the rule has an S attribute
HasShellAttribute == \E i \in 1..Len(arg.attribs) : Contains(arg.attribs[i], "S")

\* C15: for a rule without an S attribute the shell of the recipe is the value
\* of the variable shell when it is set and the default shell otherwise.
C15_ShellFallback ==
    res # <<>> /\ ~HasShellAttribute =>
        res = IF Len(arg.varshell) > 0
              THEN expandShell(arg.varshell[1], Tail(arg.varshell))
              ELSE expandShell(arg.default, <<>>)


(***************************************************************************)
(* String expansion of the first generation (src/unnamed/part_000):        *)
(* expand, expandEscape, expandDoubleQuoted, expandSingleQuoted,           *)
(* expandSigil, expandRecipeSigils.  vs maps a variable name to its list   *)
(* of values, env is the process environment of os.LookupEnv.  A slice     *)
(* expression beyond the end of a string panics.  The texts of the model   *)
(* hold no white space inside ${...}.                                      *)
(***************************************************************************)
Letters ==
    {"a", "b", "c", "d", "e", "f", "g", "h", "i", "j", "k", "l", "m", "n", "o", "p", "q",
     "r", "s", "t", "u", "v", "w", "x", "y", "z", "A", "B", "C", "D", "E", "F", "G", "H"}

Digits == {"0", "1", "2", "3", "4", "5", "6", "7", "8", "9"}

\* the rune utf8.DecodeRuneInString returns for the empty string (width 0)
RuneError == "RuneError"

\* utf8.DecodeRuneInString
DecodeRune(input) ==
    IF input = <<>> THEN [c |-> RuneError, w |-> 0] ELSE [c |-> input[1], w |-> 1]

\* input[n:]
Drop(input, n) == SubSeq(input, n + 1, Len(input))

\* input[:n]
Take(input, n) == SubSeq(input, 1, n)

\* strings.IndexAny, counted from 1; 0 when no character of chars occurs
IndexAny(input, chars) ==
    IF \E i \in 1..Len(input) : input[i] \in chars
    THEN CHOOSE i \in 1..Len(input) : input[i] \in chars /\ \A j \in 1..(i - 1) : input[j] \notin chars
    ELSE 0

\* strings.Join(elems, sep)
RECURSIVE JoinSep(_, _)
JoinSep(elems, sep) ==
    IF Len(elems) = 0 THEN <<>>
    ELSE IF Len(elems) = 1 THEN elems[1]
    ELSE elems[1] \o sep \o JoinSep(Tail(elems), sep)

\* isValidVarName
isValidVarName(v) == \A i \in 1..Len(v) : v[i] \in Letters \cup Digits \cup {"_"}

\* expandEscape
expandEscape(input) ==
    LET d == DecodeRune(input)
    IN  IF d.c \in {"\t", " "} THEN [out |-> <<d.c>>, off |-> d.w]
        ELSE IF d.c = "\n" THEN [out |-> <<>>, off |-> d.w]
        ELSE [out |-> <<"\\", d.c>>, off |-> d.w]

\* expandSingleQuoted
expandSingleQuoted(input) ==
    IF IndexByte(input, "'") = 0
    THEN [out |-> input, off |-> Len(input)]
    ELSE [out |-> Take(input, IndexByte(input, "'") - 1), off |-> IndexByte(input, "'")]

\* expandSigil_namelist_pattern.FindStringSubmatch(varname) for a varname
\* without white space: name:a%b=c%d, each part ending at the first
\* occurrence of its delimiter, d also at the end of varname
NamelistMatch(varname) ==
    LET i1 == IndexByte(varname, ":")
        r1 == Drop(varname, i1)
        i2 == IndexByte(r1, "%")
        r2 == Drop(r1, i2)
        i3 == IndexByte(r2, "=")
        r3 == Drop(r2, i3)
        i4 == IndexByte(r3, "%")
        r4 == Drop(r3, i4)
        i5 == IndexByte(r4, "%")
    IN  IF i1 > 1 /\ i2 > 0 /\ i3 > 0 /\ i4 > 0
        THEN [found |-> TRUE, name |-> Take(varname, i1 - 1), a |-> Take(r1, i2 - 1),
              b |-> Take(r2, i3 - 1), c |-> Take(r3, i4 - 1),
              d |-> IF i5 = 0 THEN r4 ELSE Take(r4, i5 - 1)]
        ELSE [found |-> FALSE, name |-> <<>>, a |-> <<>>, b |-> <<>>, c |-> <<>>, d |-> <<>>]

\* the length of the variable name at the start of input (expandSigil lines 189-197)
RECURSIVE NameLen(_, _)
NameLen(input, j) ==
    IF j < Len(input) /\ (input[j + 1] \in Letters \cup {"_"} \/ (j > 0 /\ input[j + 1] \in Digits))
    THEN NameLen(input, j + 1)
    ELSE j


RECURSIVE expandLoop(_, _, _, _, _, _)
RECURSIVE expandSigil(_, _, _)
RECURSIVE QuoteEnd(_, _)

\* Lookup giving the values of a variable as one joined part
LookupJoined(varname, input, offset, vs, env) ==
    IF isValidVarName(varname) /\ varname \in DOMAIN vs
    THEN [parts |-> <<JoinSep(vs[varname], <<" ">>)>>, off |-> offset, panic |-> FALSE]
    ELSE [parts |-> <<(<<"$">> \o Take(input, offset))>>, off |-> offset, panic |-> FALSE]

\* os.LookupEnv and the three returns at the end of expandSigil (lines 209-228)
Lookup(varname, input, offset, vs, env) ==
    IF isValidVarName(varname)
    THEN IF varname \in DOMAIN vs THEN [parts |-> vs[varname], off |-> offset, panic |-> FALSE]
         ELSE IF varname \in DOMAIN env THEN [parts |-> <<env[varname]>>, off |-> offset, panic |-> FALSE]
         ELSE [parts |-> <<(<<"$">> \o Take(input, offset))>>, off |-> offset, panic |-> FALSE]
    ELSE IF varname \in DOMAIN env THEN [parts |-> <<env[varname]>>, off |-> offset, panic |-> FALSE]
         ELSE [parts |-> <<(<<"$">> \o input)>>, off |-> Len(input), panic |-> FALSE]

\* expand: the words of input; panic when a slice expression went beyond
\* the end of the text
expandWords(input, vs, env, expandBackticks) ==
    expandLoop(input, vs, env, expandBackticks, <<>>, <<>>)

\* expanded_values = append(expanded_values, ...) (expandSigil lines 178, 181)
AppendValues(one, rest) == [parts |-> one.parts \o rest.parts, panic |-> one.panic \/ rest.panic]

\* the loop over the values of ${name:a%b=c%d} (expandSigil lines 173-185)
RECURSIVE NamelistValues(_, _, _, _)
NamelistValues(values, m, vs, env) ==
    IF values = <<>> THEN [parts |-> <<>>, panic |-> FALSE]
    ELSE LET value == Head(values)
             hit   == HasPrefix(value, m.a) /\ HasSuffix(value, m.b)
                      /\ Len(value) >= Len(m.a) + Len(m.b)
             mid   == SubSeq(value, Len(m.a) + 1, Len(value) - Len(m.b))
         IN  AppendValues(IF hit THEN expandWords(m.c \o mid \o m.d, vs, env, FALSE)
                          ELSE [parts |-> <<value>>, panic |-> FALSE],
                          NamelistValues(Tail(values), m, vs, env))

\* expandSigil: input starts after the '$'
expandSigil(input, vs, env) ==
    LET d == DecodeRune(input)
    IN  IF d.c = "$" THEN [parts |-> <<(<<"$">>)>>, off |-> 2, panic |-> FALSE]
        ELSE IF d.c = "{"
        THEN LET j       == IndexByte(Drop(input, 1), "}")
                 varname == SubSeq(input, 2, j)
                 offset  == j + 1
                 mat     == NamelistMatch(varname)
             IN  IF j = 0
                 THEN [parts |-> <<(<<"$">> \o input)>>, off |-> Len(input), panic |-> FALSE]
                 ELSE IF mat.found /\ isValidVarName(mat.name)
                 THEN IF mat.name \notin DOMAIN vs
                      THEN [parts |-> <<>>, off |-> offset, panic |-> FALSE]
                      ELSE [off |-> offset] @@ NamelistValues(vs[mat.name], mat, vs, env)
                 ELSE Lookup(varname, input, offset, vs, env)
        ELSE LET j == NameLen(input, 0)
             IN  IF j > 0 THEN Lookup(Take(input, j), input, j, vs, env)
                 ELSE IF Len(input) < 1
                 THEN [parts |-> <<>>, off |-> 1, panic |-> TRUE]
                 ELSE [parts |-> <<(<<"$">> \o Take(input, 1))>>, off |-> 1, panic |-> FALSE]

\* the end of a double quoted text (expandDoubleQuoted lines 105-129): the
\* index of the first non-escaped double quote at or after i + 1, 0 for none
QuoteEnd(input, i) ==
    LET j == IndexAny(Drop(input, i), {"\"", "\\"})
    IN  IF j = 0 THEN 0
        ELSE IF input[i + j] = "\"" THEN i + j
        ELSE IF i + j < Len(input) THEN QuoteEnd(input, i + j + 1)
        ELSE 0

\* strings.Join(expand(input[:j], vars, expandBackticks), " "), i
\* (expandDoubleQuoted line 118)
JoinedWords(e, i) == [out |-> JoinSep(e.parts, <<" ">>), off |-> i, panic |-> e.panic]

\* expandDoubleQuoted
expandDoubleQuoted(input, vs, env, expandBackticks) ==
    LET j == QuoteEnd(input, 0)
    IN  IF j = 0 THEN [out |-> input, off |-> Len(input), panic |-> FALSE]
        ELSE JoinedWords(expandWords(Take(input, j - 1), vs, env, expandBackticks), j)

\* expand lines 34-60 and 80: the text out of an escape, of a quoted text or
\* of a backquote is written to expanded, input goes on after off
\* characters
expandText(rest, vs, env, expandBackticks, parts, pre, text) ==
    IF text.panic THEN [parts |-> parts, panic |-> TRUE]
    ELSE expandLoop(Drop(rest, text.off), vs, env, expandBackticks, parts, pre \o text.out)

\* expand lines 61-80: the parts of a sigil; the first is joined to the text
\* before it, the last begins the text after it
expandParts(rest, vs, env, expandBackticks, parts, pre, sig) ==
    IF sig.panic \/ sig.off > Len(rest) THEN [parts |-> parts, panic |-> TRUE]
    ELSE IF Len(sig.parts) = 0
    THEN expandLoop(Drop(rest, sig.off), vs, env, expandBackticks, parts, pre)
    ELSE IF Len(sig.parts) = 1
    THEN expandLoop(Drop(rest, sig.off), vs, env, expandBackticks, parts, pre \o sig.parts[1])
    ELSE expandLoop(Drop(rest, sig.off), vs, env, expandBackticks,
                    Append(parts, pre \o sig.parts[1]) \o SubSeq(sig.parts, 2, Len(sig.parts) - 1),
                    sig.parts[Len(sig.parts)])

\* the body of the loop of expand, lines 19-87; expandBackQuoted runs a
\* command of the host and is outside the texts of the model
expandLoop(input, vs, env, expandBackticks, parts, expanded) ==
    IF Len(input) = 0
    THEN [parts |-> IF Len(expanded) > 0 THEN Append(parts, expanded) ELSE parts, panic |-> FALSE]
    ELSE LET j == IndexAny(input, {"\"", "'", Backquote, "$", "\\"})
         IN  IF j = 0
             THEN [parts |-> IF Len(expanded \o input) > 0 THEN Append(parts, expanded \o input) ELSE parts,
                   panic |-> FALSE]
             ELSE IF input[j] = "$"
             THEN expandParts(Drop(input, j), vs, env, expandBackticks, parts,
                              expanded \o Take(input, j - 1), expandSigil(Drop(input, j), vs, env))
             ELSE expandText(Drop(input, j), vs, env, expandBackticks, parts,
                             expanded \o Take(input, j - 1),
                             IF input[j] = "\\" THEN expandEscape(Drop(input, j)) @@ [panic |-> FALSE]
                             ELSE IF input[j] = "\""
                             THEN expandDoubleQuoted(Drop(input, j), vs, env, expandBackticks)
                             ELSE IF input[j] = "'"
                             THEN expandSingleQuoted(Drop(input, j)) @@ [panic |-> FALSE]
                             ELSE [out |-> Drop(input, j), off |-> Len(Drop(input, j)), panic |-> FALSE])

RECURSIVE expandRecipeSigilsFrom(_, _, _, _)

\* expandRecipeSigils lines 246-253: the parts of a sigil are written with
\* one space between them, input goes on after k characters
WriteSigil(rest, vs, env, pre, sig) ==
    IF sig.panic \/ sig.off > Len(rest) THEN [text |-> pre, panic |-> TRUE]
    ELSE expandRecipeSigilsFrom(Drop(rest, sig.off), vs, env, pre \o JoinSep(sig.parts, <<" ">>))

\* expandRecipeSigils lines 255-263: the character after a backslash
WriteEscaped(rest, vs, env, pre, d) ==
    expandRecipeSigilsFrom(Drop(rest, d.w), vs, env,
                           pre \o (IF d.c = "$" THEN <<"$">> ELSE <<"\\", d.c>>))

\* expandRecipeSigils: the flat text, panic when a slice expression went
\* beyond the end of the text
expandRecipeSigilsFrom(input, vs, env, expanded) ==
    IF Len(input) = 0 THEN [text |-> expanded, panic |-> FALSE]
    ELSE LET off == IndexAny(input, {"$", "\\"})
         IN  IF off = 0 THEN [text |-> expanded \o input, panic |-> FALSE]
             ELSE IF input[off] = "$"
             THEN WriteSigil(Drop(input, off), vs, env, expanded \o Take(input, off - 1),
                             expandSigil(Drop(input, off), vs, env))
             ELSE WriteEscaped(Drop(input, off), vs, env, expanded \o Take(input, off - 1),
                               DecodeRune(Drop(input, off)))

expandRecipeSigils(input, vs, env) == expandRecipeSigilsFrom(input, vs, env, <<>>)


(***************************************************************************)
(* The text and the environment of a recipe: parseRecipe (src/parse.go)    *)
(* expands the body with the variables of the mkfile when the rule is      *)
(* read, dorecipe (src/recipe.go) expands the stored body again with the   *)
(* variables of the recipe and merges the variables of the mkfile into the *)
(* environment of the command.  The bodies of the model are one line       *)
(* without indentation, which stripIndentation leaves as it is.            *)
(***************************************************************************)
TargetName == <<"t", "a", "r", "g", "e", "t">>

PrereqName == <<"p", "r", "e", "r", "e", "q">>

StemName == <<"s", "t", "e", "m">>

ShellName == <<"s", "h", "e", "l", "l">>

\* the separator of list elements in the environment, "\x01"
ListSep == "SOH"

NoVars == [k \in {} |-> <<>>]

\* the environment of the mk process, os.Environ
Environ == <<"H">> :> <<"h">>

\* vars["prereq1"], vars["prereq2"], ... (dorecipe lines 81-86)
PrereqVars(prereqs) ==
    [k \in {PrereqName \o <<Digit(i)>> : i \in 1..Len(prereqs)} |->
        <<prereqs[CHOOSE i \in 1..Len(prereqs) : k = PrereqName \o <<Digit(i)>>]>>]

\* vars["stem0"], vars["stem1"], ... (dorecipe lines 68-70)
StemVars(matches) ==
    [k \in {StemName \o <<Digit(i - 1)>> : i \in 1..Len(matches)} |->
        <<matches[CHOOSE i \in 1..Len(matches) : k = StemName \o <<Digit(i - 1)>>]>>]

\* the variables dorecipe sets for one recipe (lines 64-94)
RecipeVars(target, ismeta, regex, stem, matches, prereqs, sh) ==
    (ShellName :> (<<sh.sh>> \o sh.args)) @@ (PrereqName :> prereqs) @@ PrereqVars(prereqs)
    @@ (IF ismeta THEN IF regex THEN StemVars(matches) ELSE StemName :> <<stem>> ELSE NoVars)
    @@ (TargetName :> <<target>>)

\* cmd.Env: os.Environ, then one entry for each variable of the recipe and
\* each variable of the mkfile the recipe does not set (dorecipe lines
\* 105-115); the last entry of a name is the one the command gets
CmdEnv(rvars, mkvars, environ) ==
    [k \in DOMAIN rvars \cup DOMAIN mkvars \cup DOMAIN environ |->
        IF k \in DOMAIN rvars THEN JoinSep(rvars[k], <<ListSep>>)
        ELSE IF k \in DOMAIN mkvars THEN JoinSep(mkvars[k], <<ListSep>>)
        ELSE environ[k]]

RecipeBodies ==
    {<<"$">> \o TargetName, <<"$">> \o PrereqName, <<"$">> \o StemName, <<"$", "x">>,
     <<"\\", "$">> \o TargetName, <<"\\", "$", "x">>, <<"\\", "$", "y">>, <<"c">>,
     <<"$", "{">> \o TargetName \o <<"}">>}

MkVars ==
    {NoVars, TargetName :> <<(<<"m">>)>>, PrereqName :> <<(<<"m">>)>>,
     StemName :> <<(<<"m">>)>>, <<"x">> :> <<(<<"v">>), (<<"w">>)>>}

RecipePrereqs == {<<>>, <<(<<"p">>)>>, <<(<<"p">>), (<<"q">>)>>}

InitRecipe ==
    /\ SchedOff
    /\ BuildOff
    /\ arg \in [body : RecipeBodies, mkvars : MkVars, ismeta : BOOLEAN, prereqs : RecipePrereqs]
    /\ res = [pc |-> "parse", recipe |-> <<>>, input |-> <<>>, env |-> NoVars, panic |-> FALSE]

\* the variables of the recipe of the call
ArgVars ==
    RecipeVars(<<"t">>, arg.ismeta, FALSE, <<"s">>, <<>>, arg.prereqs,
               RecipeShell(<<>>, <<"s", "h", " ", "-", "c">>))

\* r.recipe = e (parseRecipe line 411)
Stored(r, e) ==
    [r EXCEPT !.pc = IF e.panic THEN "panic" ELSE "run", !.recipe = e.text, !.panic = e.panic]

\* cmd.Stdin = input, cmd.Env = env (dorecipe lines 97, 118-119)
Command(r, e, env) ==
    [r EXCEPT !.pc = IF e.panic THEN "panic" ELSE "done", !.input = e.text, !.panic = e.panic,
              !.env = env]

\* parseRecipe line 411: the body is stored expanded
parseRecipe ==
    /\ res.pc = "parse"
    /\ res' = Stored(res, expandRecipeSigils(arg.body, arg.mkvars, Environ))
    /\ UNCHANGED <<arg, sched, build>>

\* dorecipe lines 64-118: the text and the environment of the command
dorecipeCommand ==
    /\ res.pc = "run"
    /\ res' = Command(res, expandRecipeSigils(res.recipe, ArgVars, Environ),
                      CmdEnv(ArgVars, arg.mkvars, Environ))
    /\ UNCHANGED <<arg, sched, build>>

NextRecipe == parseRecipe \/ dorecipeCommand

SpecRecipe == InitRecipe /\ [][NextRecipe]_vars

\* the body is one $name of a variable the recipe sets
SigilOfRecipeVar ==
    \E k \in DOMAIN ArgVars \cap {TargetName, PrereqName, StemName} : arg.body = <<"$">> \o k

\* C16: when the recipe of a target ran, the variables of the recipe
\* (target, prereq, stem) win over the variables of the mkfile of the same
\* name, in the text given to the shell and in its environment.
C16_RecipeVarsWin ==
    res.pc = "done" =>
        /\ \A k \in DOMAIN ArgVars \cap {TargetName, PrereqName, StemName} :
               /\ res.env[k] = JoinSep(ArgVars[k], <<ListSep>>)
               /\ arg.body = <<"$">> \o k => res.input = JoinSep(ArgVars[k], <<" ">>)

\* the body is \$ and an identifier
EscapedSigil ==
    /\ Len(arg.body) > 2
    /\ arg.body[1] = "\\"
    /\ arg.body[2] = "$"
    /\ isValidVarName(Drop(arg.body, 2))

\* C17: a \$ of the body is a literal $ of the text given to the shell, the
\* identifier after it is not substituted.
C17_EscapedSigilLiteral ==
    (res.pc = "done" /\ EscapedSigil) => res.input = Tail(arg.body)


(***************************************************************************)
(* Calls of expand and of expandRecipeSigils on one text, with the         *)
(* variable x of the mkfile set to a list.                                 *)
(***************************************************************************)
Pre == <<"p", "r", "e">>

Post == <<"p", "o", "s", "t">>

BareWord == Pre \o <<"$", "x">> \o Post

BracedWord == Pre \o <<"$", "{", "x", "}">> \o Post

QuotedWord == <<"\"", "$", "x", "\"">>

ExpandInputs ==
    {BareWord, BracedWord, QuotedWord, <<"$", "x">>, <<"p", "$", "x">>, <<"$", "{", "x", "}", "q">>,
     <<"$", "$">>, <<"$", "$", "b">>, <<"a", "$", "$">>, <<"a", "$", "$", "b">>,
     <<"p", "\"", "$", "x", "\"", "q">>, <<"c">>,
     <<"$">>, <<"a", "$">>, <<"a", "$", " ", "b">>, <<"$", "-">>}

\* the values an assignment gives x; `x =` gives the empty list
ListValues ==
    {<<>>, <<(<<"a">>)>>, <<(<<"a">>), (<<"b">>)>>, <<(<<"a">>), (<<"b">>), (<<"c">>)>>,
     <<(<<"a", "b">>), (<<"c">>)>>, <<(<<"a">>), (<<"a">>)>>}

InitExpand ==
    /\ SchedOff
    /\ BuildOff
    /\ arg \in [input : ExpandInputs, x : ListValues]
    /\ res = <<>>

\* expand(input, vars, true) and expandRecipeSigils(input, vars)
CallExpand ==
    /\ res = <<>>
    /\ res' = [words |-> expandWords(arg.input, <<"x">> :> arg.x, Environ, TRUE),
               text  |-> expandRecipeSigils(arg.input, <<"x">> :> arg.x, Environ)]
    /\ UNCHANGED <<arg, sched, build>>

NextExpand == CallExpand

SpecExpand == InitExpand /\ [][NextExpand]_vars

\* the words of pre, a list and post put together without a space
Embedded(pre, list, post) ==
    IF Len(list) = 0 THEN <<pre \o post>>
    ELSE IF Len(list) = 1 THEN <<pre \o list[1] \o post>>
    ELSE <<pre \o list[1]>> \o SubSeq(list, 2, Len(list) - 1) \o <<list[Len(list)] \o post>>

\* C18 as stated: with x = a b c, the word pre$xpost yields the three words
\* prea, b, cpost.
C18_BareWordSplits ==
    (res # <<>> /\ arg.input = BareWord /\ arg.x = <<(<<"a">>), (<<"b">>), (<<"c">>)>>) =>
        /\ ~res.words.panic
        /\ res.words.parts = <<Pre \o <<"a">>, <<"b">>, <<"c">> \o Post>>

\* C18: a list-valued sigil between literal text splits at the list
\* boundaries when the name is delimited: the word pre${x}post yields the
\* first value after pre, the last value before post and the values between
\* as words of their own (with x = a b c: prea, b, cpost).
C18_BracedWordSplits ==
    (res # <<>> /\ arg.input = BracedWord) =>
        /\ ~res.words.panic
        /\ res.words.parts = Embedded(Pre, arg.x, Post)

C18_Witness ==
    /\ res # <<>>
    /\ arg.input = BracedWord
    /\ arg.x = <<(<<"a">>), (<<"b">>), (<<"c">>)>>
    /\ res.words.parts = <<Pre \o <<"a">>, <<"b">>, <<"c">> \o Post>>

\* C19: for every list value of x, "$x" yields exactly one word, the
\* values of x joined by single spaces.
C19_QuotedIsOneWord ==
    (res # <<>> /\ arg.input = QuotedWord) =>
        /\ ~res.words.panic
        /\ res.words.parts = <<JoinSep(arg.x, <<" ">>)>>

\* text with each $$ replaced by one $
RECURSIVE Undoubled(_)
Undoubled(text) ==
    IF Len(text) = 0 THEN <<>>
    ELSE IF Len(text) >= 2 /\ text[1] = "$" /\ text[2] = "$" THEN <<"$">> \o Undoubled(Drop(text, 2))
    ELSE <<text[1]>> \o Undoubled(Tail(text))

\* a text whose only sigils are $$
OnlyDoubled(text) ==
    /\ \E i \in 1..Len(text) : text[i] = "$"
    /\ \A i \in 1..Len(Undoubled(text)) :
           Undoubled(text)[i] = "$" \/ Undoubled(text)[i] \in Letters
    /\ Len(text) - Len(Undoubled(text)) = Cardinality({i \in 1..Len(Undoubled(text)) : Undoubled(text)[i] = "$"})

\* C20: expand and expandRecipeSigils replace $$ by one $ and consume
\* exactly these two characters, wherever $$ stands in the input.
C20_DoubledSigil ==
    (res # <<>> /\ OnlyDoubled(arg.input)) =>
        /\ ~res.words.panic
        /\ ~res.text.panic
        /\ res.words.parts = <<Undoubled(arg.input)>>
        /\ res.text.text = Undoubled(arg.input)


(***************************************************************************)
(* Calls of expand on a word ${x:a%b=c%d}, with x a list of the mkfile and *)
(* a second variable yt of the mkfile.                                     *)
(***************************************************************************)
MaxValues == 3

\* values of x; the value p$ys is what the assignment x = 'p$ys' stores
NamelistPool ==
    {<<"p", "A", "s">>, <<"p", "B", "s">>, <<"f", "o", "o">>, <<"p", "s">>, <<"p", "$", "y", "s">>}

NamelistPats ==
    {[a |-> <<"p">>, b |-> <<"s">>, c |-> <<"q">>, d |-> <<"t">>],
     [a |-> <<"p">>, b |-> <<>>, c |-> <<"q">>, d |-> <<>>],
     [a |-> <<>>, b |-> <<"s">>, c |-> <<>>, d |-> <<"t">>]}

\* the word ${x:a%b=c%d}
NamelistWord(m) ==
    <<"$", "{", "x", ":">> \o m.a \o <<"%">> \o m.b \o <<"=">> \o m.c \o <<"%">> \o m.d \o <<"}">>

\* the variables of the mkfile
NamelistVars(x) == (<<"x">> :> x) @@ (<<"y", "t">> :> <<(<<"Z">>)>>)

InitNamelist ==
    /\ SchedOff
    /\ BuildOff
    /\ arg \in [pat : NamelistPats, x : UNION {[1..n -> NamelistPool] : n \in 1..MaxValues}]
    /\ res = <<>>

\* expand(word, vars, true)
CallNamelist ==
    /\ res = <<>>
    /\ res' = expandWords(NamelistWord(arg.pat), NamelistVars(arg.x), Environ, TRUE)
    /\ UNCHANGED <<arg, sched, build>>

NextNamelist == CallNamelist

SpecNamelist == InitNamelist /\ [][NextNamelist]_vars

\* value is a + S + b for some S
OfForm(m, value) ==
    \E S \in {SubSeq(value, i, j) : i \in 1..(Len(value) + 1), j \in 0..Len(value)} :
        value = m.a \o S \o m.b

\* c + S + d for the value a + S + b
Rewritten(m, value) ==
    m.c \o SubSeq(value, Len(m.a) + 1, Len(value) - Len(m.b)) \o m.d

\* C21: ${x:a%b=c%d} maps the values of x in order: a value a+S+b becomes
\* c+S+d, every other value is passed through unchanged.
C21_NamelistMaps ==
    res # <<>> =>
        /\ ~res.panic
        /\ res.parts = [i \in 1..Len(arg.x) |->
                           IF OfForm(arg.pat, arg.x[i]) THEN Rewritten(arg.pat, arg.x[i])
                           ELSE arg.x[i]]

\* the example of C21: x = pAs pBs foo and ${x:p%s=q%t} give qAt qBt foo
C21_Example ==
    (/\ res # <<>>
     /\ arg.pat = [a |-> <<"p">>, b |-> <<"s">>, c |-> <<"q">>, d |-> <<"t">>]
     /\ arg.x = <<(<<"p", "A", "s">>), (<<"p", "B", "s">>), (<<"f", "o", "o">>)>>) =>
        res.parts = <<(<<"q", "A", "t">>), (<<"q", "B", "t">>), (<<"f", "o", "o">>)>>


(***************************************************************************)
(* expandSuffixes (src/unnamed/part_000).  i and j count from 0 as in the  *)
(* source.  The loop ends with a text, with a panic of a slice expression  *)
(* input[i:j] with j < i, or not at all: an iteration that leaves i as it  *)
(* was repeats itself for ever (hang).                                     *)
(***************************************************************************)
MaxInput == 4

RECURSIVE expandSuffixesFrom(_, _, _, _)
expandSuffixesFrom(input, stem, i, expanded) ==
    IF ~(i < Len(input)) THEN [text |-> expanded, panic |-> FALSE, hang |-> FALSE]
    ELSE LET j == IndexAny(Drop(input, i), {"\\", "%"}) - 1
         IN  IF j < 0
             THEN [text |-> expanded \o Drop(input, i), panic |-> FALSE, hang |-> FALSE]
             ELSE IF j < i
             THEN [text |-> expanded, panic |-> TRUE, hang |-> FALSE]
             ELSE IF DecodeRune(Drop(input, j)).c = "%"
             THEN expandSuffixesFrom(input, stem, j + DecodeRune(Drop(input, j)).w,
                                     expanded \o SubSeq(input, i + 1, j) \o stem)
             ELSE IF DecodeRune(Drop(input, j + DecodeRune(Drop(input, j)).w)).c = "%"
             THEN expandSuffixesFrom(input, stem, j + DecodeRune(Drop(input, j)).w + 1,
                                     expanded \o SubSeq(input, i + 1, j) \o <<"%">>)
             ELSE [text |-> expanded \o SubSeq(input, i + 1, j), panic |-> FALSE, hang |-> TRUE]

expandSuffixes(input, stem) == expandSuffixesFrom(input, stem, 0, <<>>)

InitSuffixes ==
    /\ SchedOff
    /\ BuildOff
    /\ arg \in [input : UNION {[1..n -> {"a", "%", "\\"}] : n \in 0..MaxInput},
                stem : {<<"s">>, <<"s", "t">>}]
    /\ res = <<>>

CallExpandSuffixes ==
    /\ res = <<>>
    /\ res' = expandSuffixes(arg.input, arg.stem)
    /\ UNCHANGED <<arg, sched, build>>

NextSuffixes == CallExpandSuffixes

SpecSuffixes == InitSuffixes /\ [][NextSuffixes]_vars

\* input with each unescaped % replaced by stem, each \% by %, every other
\* pair of a backslash and a character copied
RECURSIVE Suffixed(_, _)
Suffixed(input, stem) ==
    IF Len(input) = 0 THEN <<>>
    ELSE IF input[1] = "%" THEN stem \o Suffixed(Tail(input), stem)
    ELSE IF input[1] = "\\" /\ Len(input) >= 2
    THEN (IF input[2] = "%" THEN <<"%">> ELSE <<"\\", input[2]>>) \o Suffixed(Drop(input, 2), stem)
    ELSE <<input[1]>> \o Suffixed(Tail(input), stem)

\* the last character of input is a backslash with no character after it
RECURSIVE EndsInLoneBackslash(_)
EndsInLoneBackslash(input) ==
    IF Len(input) = 0 THEN FALSE
    ELSE IF input[1] = "\\" THEN Len(input) = 1 \/ EndsInLoneBackslash(Drop(input, 2))
    ELSE EndsInLoneBackslash(Tail(input))

\* C22: for every input, expandSuffixes(input, stem) returns the input with
\* each unescaped % replaced by stem, each \% by a literal % and every other
\* backslash-character pair copied unchanged.
C22_ExpandSuffixes ==
    (res # <<>> /\ ~EndsInLoneBackslash(arg.input)) =>
        /\ ~res.panic
        /\ ~res.hang
        /\ res.text = Suffixed(arg.input, arg.stem)


(***************************************************************************)
(* Calls of expand with expandBackticks = false on words that hold a       *)
(* backquote.                                                              *)
(***************************************************************************)
BackquoteInputs ==
    {<<"a", Backquote, "b">>, <<"a", Backquote>>, <<Backquote, "b">>,
     <<"a", Backquote, "$", "x">>, <<"$", "x", Backquote, "b">>,
     <<Backquote, "$", "x", Backquote>>, <<"a", Backquote, "b", Backquote, "c">>,
     <<"a", Backquote, "'", "b", "'">>, <<"a", Backquote, "\"", "$", "x", "\"">>,
     <<"a", Backquote, "$", "{", "x", "}", "b">>}

InitBackquote ==
    /\ SchedOff
    /\ BuildOff
    /\ arg \in [input : BackquoteInputs, x : ListValues]
    /\ res = <<>>

\* expand(input, vars, false)
CallExpandNoBackticks ==
    /\ res = <<>>
    /\ res' = expandWords(arg.input, <<"x">> :> arg.x, Environ, FALSE)
    /\ UNCHANGED <<arg, sched, build>>

NextBackquote == CallExpandNoBackticks

SpecBackquote == InitBackquote /\ [][NextBackquote]_vars

\* text with every character from replaced by to
Replaced(text, from, to) == [i \in 1..Len(text) |-> IF text[i] = from THEN to ELSE text[i]]

\* the words of input when the backquote is a character like any other: the
\* words of the input with "." in place of the backquote, with the
\* backquote put back
OrdinaryBackquote(input, vs, env) ==
    LET e == expandWords(Replaced(input, Backquote, "."), vs, env, FALSE)
    IN  [i \in 1..Len(e.parts) |-> Replaced(e.parts[i], ".", Backquote)]

\* C23: with backticks disabled a backquote is kept as an ordinary character
\* of the word and the text after it is expanded as usual.
C23_BackquoteOrdinary ==
    res # <<>> =>
        /\ ~res.panic
        /\ res.parts = OrdinaryBackquote(arg.input, <<"x">> :> arg.x, Environ)


(***************************************************************************)
(* The life of a node in the scheduler (Spec).                             *)
(***************************************************************************)
StatusSteps ==
    {<<nodeStatusReady, nodeStatusStarted>>, <<nodeStatusNop, nodeStatusStarted>>,
     <<nodeStatusStarted, nodeStatusDone>>, <<nodeStatusStarted, nodeStatusNop>>,
     <<nodeStatusStarted, nodeStatusFailed>>}

\* a call of mkNode on n begins in this step
mkNodeCalled(n) == \E req \in BOOLEAN : spawned'[n][req] < spawned[n][req]

\* C24: the status of a node changes only by Ready -> Started,
\* Nop -> Started and Started -> Done, Nop or Failed; a node in Done or
\* Failed keeps its status, and mkNode called on a node in Started, Done or
\* Failed changes nothing.
C24_StatusSteps ==
    [][\A n \in Names :
          /\ status'[n] # status[n] => <<status[n], status'[n]>> \in StatusSteps
          /\ status[n] \in {nodeStatusDone, nodeStatusFailed} => status'[n] = status[n]
          /\ (mkNodeCalled(n)
              /\ status[n] \in {nodeStatusStarted, nodeStatusDone, nodeStatusFailed}) =>
                 UNCHANGED <<status, listeners, locked, exists, t, files, task, runs, exitcode>>]_vars

\* a call of mkNode is about to begin on a node that has failed, while
\* another node has been claimed
C24_Witness ==
    /\ \E n \in Names, req \in BOOLEAN : status[n] = nodeStatusFailed /\ spawned[n][req] > 0
    /\ \E n \in Names : status[n] = nodeStatusStarted


(***************************************************************************)
(* The scheduler on a mkfile whose two rules name the same two source      *)
(* files in opposite order.  The run time of Go schedules every goroutine  *)
(* that can take a step: as long as some step is possible, one is taken.   *)
(***************************************************************************)
\* a:X: c d / b: d c -- c and d are source files
MkCross ==
    [n \in Names |->
        CASE n = ROOT -> RootRule(<<"a", "b">>)
          [] n = "a" -> Rule(<<"c", "d">>, {"X"}, TRUE)
          [] n = "b" -> Rule(<<"d", "c">>, {}, TRUE)
          [] OTHER -> NoRule]

InitCross ==
    /\ InitOf({MkCross})
    /\ NoCall
    /\ BuildOff
    /\ ~dryrun
    /\ ~rebuildall
    /\ rebuildtargets = {}
    /\ subprocsAllowed = 1
    /\ \A n \in Names : fexists[n] <=> n \in {"c", "d"}
    /\ \A n \in {"c", "d"} : ftime[n] = 1

SpecCross == InitCross /\ [][Next]_vars /\ WF_vars(Next)

\* C25: when a node reaches its final status every listener subscribed to
\* it gets the status and the list of listeners is empty afterwards: no
\* subscriber of mkNodePrereqs stays without a message.
C25_ListenersServed ==
    \A n \in Names : (listeners[n] # <<>>) ~> (listeners[n] = <<>> \/ exitcode # RUNNING)


\* the recipe of n starts in this state: dorecipe is the next step of mkNode
RecipeStarts(n) == task[n].pc = "recipe"

\* C26 as stated: at the moment the recipe of a node starts, no prerequisite
\* of the node is in status Ready or Started.
C26_PrereqsSettled ==
    \A n \in Names :
        RecipeStarts(n) =>
            \A k \in 1..Len(Prereqs(n)) :
                status[Prereqs(n)[k]] \notin {nodeStatusReady, nodeStatusStarted}

\* n has subscribed to p and the status of p was not yet sent to it
Unanswered(p, n) ==
    \E k \in 1..Len(listeners[p]) :
        /\ listeners[p][k][1] = n
        /\ ~(task[p].pc = "send" /\ k < task[p].i)

\* C26: mkNode runs the recipe of a node only after the builds of its
\* prerequisites it waited for have completed: at the moment the recipe
\* starts no prerequisite is in status Ready and no subscription of the node
\* to a prerequisite is unanswered (a prerequisite that finished as Nop may
\* have been claimed again by another dependent and be in Started).
C26_PrereqsJoined ==
    \A n \in Names :
        RecipeStarts(n) =>
            \A k \in 1..Len(Prereqs(n)) :
                /\ status[Prereqs(n)[k]] # nodeStatusReady
                /\ ~Unanswered(Prereqs(n)[k], n)

\* the recipe of a node with a prerequisite starts; the prerequisite was
\* claimed again in the meantime
C26_Witness ==
    \E n \in Names :
        /\ RecipeStarts(n)
        /\ Len(Prereqs(n)) > 0
        /\ \E k \in 1..Len(Prereqs(n)) : status[Prereqs(n)[k]] = nodeStatusStarted


\* the call f of BuildRule is past wg.Wait, all its prerequisites were built
\* without error, its target is out of date and its rule has a recipe
MustRun(f) ==
    /\ frames[f].pc = "wait"
    /\ Len(frames[f].errs) = Len(frames[f].prereqs)
    /\ \A i \in 1..Len(frames[f].errs) : frames[f].errs[i] = Nil
    /\ isOutdated(frames[f].target, frames[f].prereqs)
    /\ Len(rules[frames[f].r].recipe) > 0

\* C27: BuildRule runs the recipe of the rule whenever the target is out of
\* date and all its prerequisites were built without error, with one or
\* more prerequisites as well as with none.
C27_RecipeRuns ==
    [][\A f \in DOMAIN frames :
          (MustRun(f) /\ (f \notin DOMAIN frames' \/ frames'[f] # frames[f])) =>
              (f \in DOMAIN frames' /\ frames'[f].pc = "recipe")]_vars


(***************************************************************************)
(* The reader of src/reader.go over a stream of one-byte runes.  Read      *)
(* fills what is free of the buffer from the stream and reports io.EOF     *)
(* with n = 0 once the stream is empty, as a file does.  The buffer of     *)
(* the model is shorter than the 1024 bytes of newReader.                  *)
(* Indexes of buf count from 0 as in the source.                           *)
(***************************************************************************)
\* len(l.buf)
BufSize == 6

\* the longest stream
MaxStream == 3

\* peekN is called with n in 0..MaxPeek
MaxPeek == 2

\* next is called up to MaxNext times
MaxNext == 6

\* the byte of a fresh buffer
Zero == "NUL"

\* const eof rune = '\u0000': the rune peekN and next return at the end of
\* the stream
eof == Zero

\* a byte that is no UTF-8 encoding
InvalidByte == "INVALID"

\* utf8.DecodeRune on a window that begins with the byte b
DecodeByte(b) == IF b = InvalidByte THEN RuneError ELSE b

newReader(rd) ==
    [rd |-> rd, buf |-> [i \in 0..(BufSize - 1) |-> Zero], begin |-> 0, end |-> 0,
     value |-> <<>>, pos |-> 0, line |-> 1, col |-> 0, indented |-> TRUE]

\* reader.runecount
runecount(l) == l.end - l.begin

\* copy(l.buf, l.window()); l.end -= l.begin; l.begin = 0
Compacted(l) ==
    IF l.begin > 0
    THEN [l EXCEPT !.buf = [i \in 0..(BufSize - 1) |->
                               IF i < l.end - l.begin THEN l.buf[l.begin + i] ELSE l.buf[i]],
                   !.end = l.end - l.begin, !.begin = 0]
    ELSE l

Min(a, b) == IF a < b THEN a ELSE b

\* n, err := l.rd.Read(l.buf[l.end:]) with bytes left in the stream
ReadSome(l) ==
    [l EXCEPT !.buf = [i \in 0..(BufSize - 1) |->
                          IF i >= l.end /\ i < l.end + Min(BufSize - l.end, Len(l.rd))
                          THEN l.rd[i - l.end + 1] ELSE l.buf[i]],
              !.end = l.end + Min(BufSize - l.end, Len(l.rd)),
              !.rd = Drop(l.rd, Min(BufSize - l.end, Len(l.rd)))]

\* the loop of reader.ensure, lines 81-96
RECURSIVE ensureLoop(_, _)
ensureLoop(l, count) ==
    IF runecount(l) < count /\ l.end - l.begin < BufSize
    THEN IF Len(Compacted(l).rd) > 0
         THEN ensureLoop(ReadSome(Compacted(l)), count)
         ELSE IF Compacted(l).buf[Compacted(l).end] # "\n"
         THEN ensureLoop([Compacted(l) EXCEPT !.buf[Compacted(l).end] = "\n", !.end = @ + 1], count)
         ELSE Compacted(l)
    ELSE l

\* reader.ensure: the reader after the call; the result is
\* runecount(l) >= count
ensure(l, count) == ensureLoop(l, count)

\* the reader after next has consumed the rune c
Consumed(l, c) ==
    [l EXCEPT !.begin = @ + 1, !.pos = @ + 1, !.value = Append(@, c),
              !.col = IF c = "\n" THEN 0 ELSE @ + 1,
              !.line = IF c = "\n" THEN @ + 1 ELSE @,
              !.indented = IF c = "\n" THEN TRUE ELSE IF c \in {" ", "\t"} THEN @ ELSE FALSE]

InitReader ==
    /\ SchedOff
    /\ BuildOff
    /\ arg \in UNION {[1..n -> {"a", "\n"}] : n \in 0..MaxStream}
    /\ res = [l |-> newReader(arg), ret |-> <<>>, ended |-> FALSE, calls |-> 0]

\* l.peekN(n)
peekN(n) ==
    /\ res.calls < MaxNext
    /\ res' = [res EXCEPT !.l = ensure(res.l, n + 1),
                          !.ret = IF runecount(ensure(res.l, n + 1)) >= n + 1
                                  THEN <<DecodeByte(ensure(res.l, n + 1).buf[ensure(res.l, n + 1).begin + n])>>
                                  ELSE <<eof>>]
    /\ UNCHANGED <<arg, sched, build>>

\* l.next()
next ==
    /\ res.calls < MaxNext
    /\ res' = IF runecount(ensure(res.l, 1)) >= 1
              THEN [res EXCEPT !.l = Consumed(ensure(res.l, 1), DecodeByte(ensure(res.l, 1).buf[ensure(res.l, 1).begin])),
                               !.ret = <<DecodeByte(ensure(res.l, 1).buf[ensure(res.l, 1).begin])>>,
                               !.calls = @ + 1]
              ELSE [res EXCEPT !.l = ensure(res.l, 1), !.ret = <<eof>>, !.ended = TRUE,
                               !.calls = @ + 1]
    /\ UNCHANGED <<arg, sched, build>>

NextReader == next \/ \E n \in 0..MaxPeek : peekN(n)

SpecReader == InitReader /\ [][NextReader]_vars

\* seq is the beginning of text
IsPrefix(seq, text) == Len(seq) <= Len(text) /\ seq = SubSeq(text, 1, Len(seq))

\* C28: for a stream that does not end with a newline the reader delivers
\* the runes of the stream and then one newline before it signals the end
\* of the stream, whatever the stream holds and however peek, peekN and
\* next are interleaved.
C28_OneNewline ==
    (Len(arg) = 0 \/ arg[Len(arg)] # "\n") =>
        /\ IsPrefix(res.l.value, arg \o <<"\n">>)
        /\ res.ended => res.l.value = arg \o <<"\n">>


(***************************************************************************)
(* The lexer of src/lex.go.  A lexer is a reader with the fields output,   *)
(* startcol, errmsg, barewords and state; state is the name of the state   *)
(* function to call next, "nil" when there is none and "hang" in a call    *)
(* that does not return; hung says that a loop of the call under way does  *)
(* not end.  The lexer tests the rune it peeks against utf8.RuneError,     *)
(* the reader returns eof at the end of the stream.  Sets of runes stand   *)
(* for the strings of valid and invalid runes.                             *)
(***************************************************************************)
nonBareRunes == {" ", "\t", "\n", "\r", "\\", "=", ":", "#", "'", "\"", "$"}

\* the rune n ahead in a reader on which ensure(n + 1) was called
RuneAt(e, n) == IF runecount(e) >= n + 1 THEN DecodeByte(e.buf[e.begin + n]) ELSE eof

\* reader.next on a reader on which ensure(1) was called
Advance(e) == IF runecount(e) >= 1 THEN Consumed(e, DecodeByte(e.buf[e.begin])) ELSE e

lexPeek(l) == RuneAt(ensure(l, 1), 0)

lexPeek1(l) == RuneAt(ensure(l, 2), 1)

lexNext(l) == Advance(ensure(l, 1))

lexSkip(l) == [lexNext(l) EXCEPT !.value = <<>>, !.startcol = lexNext(l).col]

emit(l, typ) ==
    [l EXCEPT !.output = Append(@, [typ |-> typ, val |-> l.value, line |-> l.line, col |-> l.startcol]),
              !.value = <<>>, !.startcol = 0]

lexerror(l, what) == emit([l EXCEPT !.errmsg = IF @ = "" THEN what ELSE @], "tokenError")

\* lexer.accept: the lexer after the call
accept(l, valid) ==
    IF lexPeek(l) # RuneError /\ lexPeek(l) \in valid THEN lexNext(l) ELSE ensure(l, 1)

RECURSIVE acceptRunFrom(_, _)
acceptRunFrom(e, valid) ==
    IF RuneAt(e, 0) = RuneError \/ RuneAt(e, 0) \notin valid THEN e
    ELSE acceptRunFrom(ensure(Advance(e), 1), valid)

acceptRun(l, valid) == acceptRunFrom(ensure(l, 1), valid)

\* a loop that calls next until it peeks a rune that ends it does not end
\* at the end of the stream, where next consumes nothing, when eof is not
\* such a rune
RECURSIVE acceptUntilFrom(_, _)
acceptUntilFrom(e, invalid) ==
    IF e.hung \/ RuneAt(e, 0) = RuneError \/ RuneAt(e, 0) \in invalid THEN e
    ELSE IF runecount(e) = 0 THEN [e EXCEPT !.hung = TRUE]
    ELSE acceptUntilFrom(ensure(Advance(e), 1), invalid)

acceptUntilOrEof(l, invalid) == acceptUntilFrom(ensure(l, 1), invalid)

EndChecked(e, what) == IF RuneAt(e, 0) = RuneError THEN lexerror(e, what) ELSE e

acceptUntil(l, invalid) ==
    EndChecked(acceptUntilFrom(ensure(l, 1), invalid), "end of file encountered while looking for one of")

RECURSIVE skipRunFrom(_, _)
skipRunFrom(e, valid) ==
    IF RuneAt(e, 0) \in valid
    THEN skipRunFrom(ensure([Advance(e) EXCEPT !.value = <<>>, !.startcol = Advance(e).col], 1), valid)
    ELSE e

skipRun(l, valid) == skipRunFrom(ensure(l, 1), valid)

RECURSIVE skipUntilFrom(_, _)
skipUntilFrom(e, invalid) ==
    IF e.hung \/ RuneAt(e, 0) = RuneError \/ RuneAt(e, 0) \in invalid THEN e
    ELSE IF runecount(e) = 0 THEN [e EXCEPT !.hung = TRUE]
    ELSE skipUntilFrom(ensure([Advance(e) EXCEPT !.value = <<>>, !.startcol = Advance(e).col], 1), invalid)

skipUntil(l, invalid) ==
    EndChecked(skipUntilFrom(ensure(l, 1), invalid), "end of file encountered while looking for one of")

\* the switch of lexTopLevel on the next rune
TopDispatch(c) ==
    CASE c = RuneError -> "nil"
      [] c = "#" -> "lexComment"
      [] c = "<" -> "lexInclude"
      [] c = ":" -> "lexColon"
      [] c = "=" -> "lexAssign"
      [] c = "\"" -> "lexDoubleQuotedWord"
      [] c = "'" -> "lexSingleQuotedWord"
      [] c = Backquote -> "lexBackQuotedWord"
      [] OTHER -> "lexBareWord"

\* lexTopLevel behind its loop
TopLeave(l) ==
    IF l.indented /\ l.col > 0 THEN [l EXCEPT !.state = "lexRecipe"]
    ELSE [ensure(l, 1) EXCEPT !.state = TopDispatch(lexPeek(l))]

RECURSIVE lexTopLevelLoop(_)
\* the end of a turn of the loop of lexTopLevel, behind the second skipRun
TopContinue(l) ==
    IF lexPeek(l) = "\\" /\ lexPeek1(ensure(l, 1)) = "\n"
    THEN lexTopLevelLoop([lexNext(lexNext(ensure(ensure(l, 1), 2))) EXCEPT !.indented = FALSE])
    ELSE TopLeave(IF lexPeek(l) = "\\" THEN ensure(ensure(l, 1), 2) ELSE ensure(l, 1))

\* a turn of the loop of lexTopLevel behind the first skipRun
TopNewline(l) ==
    IF lexPeek(l) = "\n" /\ ~l.indented
    THEN IF l.barewords THEN [lexNext(l) EXCEPT !.state = "nil"]
         ELSE TopContinue(skipRun(emit(lexNext(l), "tokenNewline"), {" ", "\t", "\r", "\n"}))
    ELSE TopContinue(skipRun(l, {" ", "\t", "\r", "\n"}))

lexTopLevelLoop(l) == TopNewline(skipRun(l, {" ", "\t", "\r"}))

lexTopLevel(l) == lexTopLevelLoop(l)

lexColon(l) == [emit(lexNext(l), "tokenColon") EXCEPT !.state = "lexTopLevel"]

lexAssign(l) == [emit(lexNext(l), "tokenAssign") EXCEPT !.state = "lexTopLevel"]

lexComment(l) == [skipUntil(lexSkip(l), {"\n"}) EXCEPT !.state = "lexTopLevel"]

lexInclude(l) ==
    IF lexPeek(lexNext(l)) = "|"
    THEN [emit(lexNext(lexNext(l)), "tokenPipeInclude") EXCEPT !.state = "lexTopLevel"]
    ELSE [emit(ensure(lexNext(l), 1), "tokenRedirInclude") EXCEPT !.state = "lexTopLevel"]

RECURSIVE lexDoubleQuotedLoop(_)
lexDoubleQuotedLoop(l) ==
    IF ~l.hung /\ lexPeek(l) # "\"" /\ lexPeek(l) # RuneError
    THEN lexDoubleQuotedLoop(
             IF lexPeek(acceptUntil(l, {"\\", "\""})) = "\\"
             THEN accept(lexNext(acceptUntil(l, {"\\", "\""})), {"\""})
             ELSE acceptUntil(l, {"\\", "\""}))
    ELSE ensure(l, 1)

lexDoubleQuotedWord(l) ==
    [lexNext(EndChecked(lexDoubleQuotedLoop(lexNext(l)),
                        "end of file encountered while parsing a quoted string."))
        EXCEPT !.state = "lexBareWord"]

lexBackQuotedWord(l) ==
    [lexNext(acceptUntil(lexNext(l), {Backquote})) EXCEPT !.state = "lexBareWord"]

lexSingleQuotedWord(l) ==
    [lexNext(acceptUntil(lexNext(l), {"'"})) EXCEPT !.state = "lexBareWord"]

\* s contains a rune of white space; onlyWhitespace(s) of the source is
\* the negation of it
HasSpace(s) == \E i \in 1..Len(s) : IsSpace(s[i])

RECURSIVE lexRecipeLoop(_)
\* the end of a turn of the loop of lexRecipe that began with the lexer l
\* and has made m of it; a turn that changes nothing is followed by the
\* same turn for ever
RecipeTurn(l, m) ==
    IF m.hung \/ ~m.indented \/ m.col = 0 THEN m
    ELSE IF m = l THEN [m EXCEPT !.hung = TRUE]
    ELSE lexRecipeLoop(m)

lexRecipeLoop(l) == RecipeTurn(l, acceptRun(acceptUntilOrEof(l, {"\n"}), {" ", "\t", "\n", "\r"}))

RecipeEmitted(l) ==
    [(IF HasSpace(l.value) THEN emit(l, "tokenRecipe") ELSE l) EXCEPT !.state = "lexTopLevel"]

lexRecipe(l) == RecipeEmitted(lexRecipeLoop(l))

WordEmitted(l) == IF Len(l.value) > 0 THEN emit(l, "tokenWord") ELSE l

\* lexBareWord behind acceptUntil(nonBareRunes)
BareDispatch(l) ==
    CASE lexPeek(l) = "\"" -> [l EXCEPT !.state = "lexDoubleQuotedWord"]
      [] lexPeek(l) = "'" -> [l EXCEPT !.state = "lexSingleQuotedWord"]
      [] lexPeek(l) = Backquote -> [l EXCEPT !.state = "lexBackQuotedWord"]
      [] lexPeek(l) = "\\" ->
            IF lexPeek1(l) \in {"\n", "\r"}
            THEN [lexSkip(lexSkip(WordEmitted(ensure(l, 2)))) EXCEPT !.state = "lexTopLevel"]
            ELSE [lexNext(lexNext(ensure(l, 2))) EXCEPT !.state = "lexBareWord"]
      [] lexPeek(l) = "$" ->
            IF lexPeek1(l) = "{"
            THEN [ensure(l, 2) EXCEPT !.state = "lexBracketExpansion"]
            ELSE [lexNext(ensure(l, 2)) EXCEPT !.state = "lexBareWord"]
      [] OTHER -> [WordEmitted(l) EXCEPT !.state = "lexTopLevel"]

lexBareWord(l) == BareDispatch(ensure(acceptUntil(l, nonBareRunes), 1))

lexBracketExpansion(l) ==
    [lexNext(acceptUntil(lexNext(lexNext(l)), {"}"})) EXCEPT !.state = "lexBareWord"]

\* lex(r, barewords)
lex(r, barewords) ==
    [f \in DOMAIN newReader(r) \cup {"output", "startcol", "errmsg", "barewords", "state", "hung"} |->
        CASE f = "output" -> <<>>
          [] f = "hung" -> FALSE
          [] f = "startcol" -> 0
          [] f = "errmsg" -> ""
          [] f = "barewords" -> barewords
          [] f = "state" -> "lexTopLevel"
          [] OTHER -> newReader(r)[f]]

\* the state function l.state applied to l
StateFun(l) ==
    CASE l.state = "lexTopLevel" -> lexTopLevel(l)
      [] l.state = "lexColon" -> lexColon(l)
      [] l.state = "lexAssign" -> lexAssign(l)
      [] l.state = "lexComment" -> lexComment(l)
      [] l.state = "lexInclude" -> lexInclude(l)
      [] l.state = "lexDoubleQuotedWord" -> lexDoubleQuotedWord(l)
      [] l.state = "lexBackQuotedWord" -> lexBackQuotedWord(l)
      [] l.state = "lexSingleQuotedWord" -> lexSingleQuotedWord(l)
      [] l.state = "lexRecipe" -> lexRecipe(l)
      [] l.state = "lexBareWord" -> lexBareWord(l)
      [] l.state = "lexBracketExpansion" -> lexBracketExpansion(l)

\* the lexer l after the call that would make r of it, and in the call
\* when it does not return
Called(l, r) == IF r.hung THEN [l EXCEPT !.state = "hang"] ELSE r

\* l.state = l.state(l)
RunState(l) == Called(l, StateFun(l))

\* the longest line made of the runes of WordRunes
MaxLine == 5

\* the runes of the lines about words
WordRunes == {"a", " ", "\"", "'", Backquote}

\* lines that reach the other state functions
OtherLines ==
    {<<"a", "=", "a">>, <<"a", ":", "a">>, <<"$", "{", "a", " ", "}", "a">>, <<"#", "a">>,
     <<"<", "a">>, <<"<", "|", "a">>, <<"a", "$", "a">>, <<"a", "\\", "\n", "a">>,
     <<"a", "\\", "a">>, <<"a", "\n", " ", "a">>, <<InvalidByte>>, <<"a", "\n", InvalidByte>>,
     <<" ", InvalidByte>>}

LexInputs == UNION {[1..n -> WordRunes] : n \in 0..MaxLine} \cup OtherLines

InitLex ==
    /\ SchedOff
    /\ BuildOff
    /\ arg \in {[text |-> line \o <<"\n">>, barewords |-> b] : line \in LexInputs, b \in BOOLEAN}
    /\ res = [l |-> lex(arg.text, arg.barewords), tokens |-> <<>>, ok |-> TRUE]

\* a turn of the loop of nextToken with the state function fn
StateStep(fn) ==
    /\ res.ok
    /\ res.l.state = fn
    /\ Len(res.l.output) = 0
    /\ res' = [res EXCEPT !.l = RunState(res.l)]
    /\ UNCHANGED <<arg, sched, build>>

\* nextToken behind its loop: the first token of output, or no token
nextToken ==
    /\ res.ok
    /\ res.l.state = "nil" \/ Len(res.l.output) > 0
    /\ res' = IF Len(res.l.output) = 0 THEN [res EXCEPT !.ok = FALSE]
              ELSE [res EXCEPT !.tokens = Append(@, res.l.output[1]), !.l.output = Tail(@)]
    /\ UNCHANGED <<arg, sched, build>>

NextLex ==
    \/ StateStep("lexTopLevel")
    \/ StateStep("lexColon")
    \/ StateStep("lexAssign")
    \/ StateStep("lexComment")
    \/ StateStep("lexInclude")
    \/ StateStep("lexDoubleQuotedWord")
    \/ StateStep("lexBackQuotedWord")
    \/ StateStep("lexSingleQuotedWord")
    \/ StateStep("lexRecipe")
    \/ StateStep("lexBareWord")
    \/ StateStep("lexBracketExpansion")
    \/ nextToken

SpecLex == InitLex /\ [][NextLex]_vars

\* the line is bare text, a span between two quotes q of bare text and
\* blanks, and bare text
SpanInWord(line, q) ==
    \E i, j \in 1..Len(line) :
        /\ 1 < i
        /\ i < j
        /\ line[i] = q
        /\ line[j] = q
        /\ \A k \in 1..Len(line) :
              IF k < i \/ k > j THEN line[k] = "a"
              ELSE k \in {i, j} \/ line[k] \in {"a", " "}

\* the lexer has delivered every token it makes of the text
LexEnded == res.l.state \in {"nil", "hang"} /\ res.l.output = <<>>

\* the words of the tokens delivered
WordsOf(toks) == SelectSeq(toks, LAMBDA tok : tok.typ # "tokenNewline")

\* C29: a double-quoted, single-quoted or backquoted span that begins
\* inside a bare word is lexed as part of that Word token: the line is
\* delivered as one Word, the blanks of the span do not split it.
C29_SpanInWord ==
    (LexEnded /\ \E q \in {"\"", "'", Backquote} : SpanInWord(SubSeq(arg.text, 1, Len(arg.text) - 1), q)) =>
        WordsOf(res.tokens) =
            <<[typ |-> "tokenWord", val |-> SubSeq(arg.text, 1, Len(arg.text) - 1), line |-> 1, col |-> 0]>>

\* the same for the two quotes that are in nonBareRunes
C29_QuoteInWord ==
    (LexEnded /\ \E q \in {"\"", "'"} : SpanInWord(SubSeq(arg.text, 1, Len(arg.text) - 1), q)) =>
        \E tok \in {[typ |-> "tokenWord", val |-> SubSeq(arg.text, 1, Len(arg.text) - 1), line |-> 1, col |-> c] : c \in 0..MaxLine} :
            WordsOf(res.tokens) = <<tok>>


(***************************************************************************)
(* The parser of src/parse.go over the tokens of the lexer.  res.pc is     *)
(* the place of parseInto in its loop: "nextToken" before l.nextToken(),   *)
(* "state" before state(p, t), "end" behind the loop, "done" at its        *)
(* return, "exit" after mkError, which ends the process, and "hang" in a   *)
(* call of nextToken that does not return.  The includes                   *)
(* (lines 123-196) read other files and commands; the texts of the model   *)
(* hold no "<".                                                            *)
(***************************************************************************)
\* the longest text made of the runes of TextRunes
MaxText == 5

TextRunes == {"a", ":", "=", "\n", " "}

\* texts with an attribute, a variable name that is not valid, a comment,
\* a byte that is no UTF-8 encoding
OtherTexts ==
    {<<"a", ":", "\n", InvalidByte>>, <<"a", ":", InvalidByte>>, <<"a", "=", "a", "\n", InvalidByte>>,
     <<"a", ":", "a", "\n", " ", "a", "\n", InvalidByte>>, <<InvalidByte>>,
     <<"a", ":", "X", ":", "a", "\n", " ", "a">>, <<":", "=", "a">>, <<"a", "=", "a", ":", "=">>,
     <<"a", ":", "a", "#", "a", "\n", "a", "=">>}

ParseTexts == UNION {[1..n -> TextRunes] : n \in 0..MaxText} \cup OtherTexts

\* the loop of nextToken
RECURSIVE lexUntilToken(_)
lexUntilToken(l) ==
    IF l.state \notin {"nil", "hang"} /\ Len(l.output) = 0 THEN lexUntilToken(RunState(l)) ELSE l

\* parseInto lines 66-70
InitParseInto ==
    /\ SchedOff
    /\ BuildOff
    /\ arg \in ParseTexts
    /\ res = [l |-> lex(arg, FALSE), pc |-> "nextToken", t |-> <<>>, tokens |-> <<>>,
              p |-> [state |-> "parseTopLevel", tokenbuf |-> <<>>, rules |-> <<>>,
                     vars |-> <<"m", "k", "f", "i", "l", "e", "d", "i", "r">> :> <<(<<".">>)>>,
                     executed |-> 0, err |-> FALSE]]

\* parser.parseError, basicErrorAtToken: mkError
Fatal(p) == [p EXCEPT !.err = TRUE]

push(p, tok) == [p EXCEPT !.tokenbuf = Append(@, tok)]

clear(p) == [p EXCEPT !.tokenbuf = <<>>]

\* the words the tokens from..to - 1 of the token buffer expand to
RECURSIVE expandTokens(_, _, _, _)
expandTokens(toks, from, to, vs) ==
    IF from >= to \/ from > Len(toks) THEN <<>>
    ELSE expandWords(toks[from].val, vs, Environ, TRUE).parts \o expandTokens(toks, from + 1, to, vs)

\* the input strings of executeAssignment lines 599-610
RECURSIVE AssignInput(_, _, _)
AssignInput(ts, i, input) ==
    IF i > Len(ts) THEN input
    ELSE IF ts[i].typ # "tokenWord" \/ (i > 2 /\ ts[i - 1].typ # "tokenWord")
    THEN AssignInput(ts, i + 1,
                     IF Len(input) = 0 THEN <<ts[i].val>>
                     ELSE [input EXCEPT ![Len(input)] = @ \o ts[i].val])
    ELSE AssignInput(ts, i + 1, Append(input, ts[i].val))

RECURSIVE ExpandAll(_, _)
ExpandAll(input, vs) ==
    IF input = <<>> THEN <<>>
    ELSE expandWords(Head(input), vs, Environ, TRUE).parts \o ExpandAll(Tail(input), vs)

\* ruleSet.executeAssignment and lines 254-258 of parseAssignment
executeAssignment(p) ==
    IF ~isValidVarName(p.tokenbuf[1].val) THEN Fatal(p)
    ELSE [p EXCEPT !.vars = (p.tokenbuf[1].val :> ExpandAll(AssignInput(p.tokenbuf, 2, <<>>), p.vars)) @@ @,
                   !.executed = @ + 1]

\* the index of the first colon of toks from index i on, Len(toks) + 1
\* when there is none
RECURSIVE ColonFrom(_, _)
ColonFrom(toks, i) ==
    IF i > Len(toks) \/ toks[i].typ = "tokenColon" THEN i ELSE ColonFrom(toks, i + 1)

parseTopLevel(p, tok) ==
    CASE tok.typ = "tokenNewline" -> [p EXCEPT !.state = "parseTopLevel"]
      [] tok.typ = "tokenPipeInclude" -> [p EXCEPT !.state = "parsePipeInclude"]
      [] tok.typ = "tokenRedirInclude" -> [p EXCEPT !.state = "parseRedirInclude"]
      [] tok.typ = "tokenWord" -> [push(p, tok) EXCEPT !.state = "parseEqualsOrTarget"]
      [] OTHER -> Fatal(p)

parseEqualsOrTarget(p, tok) ==
    CASE tok.typ = "tokenAssign" -> [p EXCEPT !.state = "parseAssignment"]
      [] tok.typ = "tokenWord" -> [push(p, tok) EXCEPT !.state = "parseTargets"]
      [] tok.typ = "tokenColon" -> [push(p, tok) EXCEPT !.state = "parseAttributesOrPrereqs"]
      [] OTHER -> Fatal(p)

parseAssignment(p, tok) ==
    IF tok.typ = "tokenNewline"
    THEN IF executeAssignment(p).err THEN Fatal(p)
         ELSE [clear(executeAssignment(p)) EXCEPT !.state = "parseTopLevel"]
    ELSE push(p, tok)

parseTargets(p, tok) ==
    CASE tok.typ = "tokenWord" -> push(p, tok)
      [] tok.typ = "tokenColon" -> [push(p, tok) EXCEPT !.state = "parseAttributesOrPrereqs"]
      [] OTHER -> Fatal(p)

parseAttributesOrPrereqs(p, tok) ==
    CASE tok.typ = "tokenNewline" -> [p EXCEPT !.state = "parseRecipe"]
      [] tok.typ = "tokenColon" -> [push(p, tok) EXCEPT !.state = "parsePrereqs"]
      [] tok.typ = "tokenWord" -> push(p, tok)
      [] OTHER -> Fatal(p)

parsePrereqs(p, tok) ==
    CASE tok.typ = "tokenNewline" -> [p EXCEPT !.state = "parseRecipe"]
      [] tok.typ = "tokenWord" -> push(p, tok)
      [] OTHER -> Fatal(p)

\* the rule parseRecipe assembles of the token buffer, with the first
\* colon at i and the second at j; of the recipe the rule keeps that it
\* has one
AssembledRule(p, tok, i, j) ==
    [targets |-> expandTokens(p.tokenbuf, 1, i, p.vars),
     attribs |-> IF j <= Len(p.tokenbuf) THEN expandTokens(p.tokenbuf, i + 1, j, p.vars) ELSE <<>>,
     prereqs |-> expandTokens(p.tokenbuf, (IF j <= Len(p.tokenbuf) THEN j ELSE i) + 1,
                              Len(p.tokenbuf) + 1, p.vars),
     hasrecipe |-> tok.typ = "tokenRecipe"]

\* parseRecipe lines 414-422
RuleAdded(p, tok, r) ==
    IF parseAttribs(EmptyRule, r.attribs).err THEN Fatal(p)
    ELSE IF tok.typ # "tokenRecipe"
    THEN parseTopLevel(clear([p EXCEPT !.rules = Append(@, r), !.state = "parseTopLevel"]), tok)
    ELSE clear([p EXCEPT !.rules = Append(@, r), !.state = "parseTopLevel"])

\* the state function parseRecipe of src/parse.go
parseRecipeState(p, tok) ==
    RuleAdded(p, tok, AssembledRule(p, tok, ColonFrom(p.tokenbuf, 1),
                                  ColonFrom(p.tokenbuf, ColonFrom(p.tokenbuf, 1) + 1)))

\* state(p, tok)
ParserState(p, tok) ==
    CASE p.state = "parseTopLevel" -> parseTopLevel(p, tok)
      [] p.state = "parseEqualsOrTarget" -> parseEqualsOrTarget(p, tok)
      [] p.state = "parseAssignment" -> parseAssignment(p, tok)
      [] p.state = "parseTargets" -> parseTargets(p, tok)
      [] p.state = "parseAttributesOrPrereqs" -> parseAttributesOrPrereqs(p, tok)
      [] p.state = "parsePrereqs" -> parsePrereqs(p, tok)
      [] p.state = "parseRecipe" -> parseRecipeState(p, tok)

\* parseInto lines 72-79 on the lexer l after the loop of nextToken
TokenTaken(r, l) ==
    IF l.state = "hang" THEN [r EXCEPT !.l = l, !.pc = "hang"]
    ELSE IF Len(l.output) = 0 THEN [r EXCEPT !.l = l, !.pc = "end"]
    ELSE IF l.output[1].typ = "tokenError"
    THEN [r EXCEPT !.l = [l EXCEPT !.output = Tail(@)], !.pc = "exit"]
    ELSE [r EXCEPT !.l = [l EXCEPT !.output = Tail(@)], !.pc = "state",
                   !.t = <<l.output[1]>>, !.tokens = Append(@, l.output[1])]

parseIntoNextToken ==
    /\ res.pc = "nextToken"
    /\ res' = TokenTaken(res, lexUntilToken(res.l))
    /\ UNCHANGED <<arg, sched, build>>

StateCalled(r, p, pc) == [r EXCEPT !.p = p, !.t = <<>>, !.pc = IF p.err THEN "exit" ELSE pc]

\* parseInto line 81: state = state(p, t)
parseIntoState(st) ==
    /\ res.pc = "state"
    /\ res.p.state = st
    /\ res' = StateCalled(res, ParserState(res.p, res.t[1]), "nextToken")
    /\ UNCHANGED <<arg, sched, build>>

\* parseInto lines 84-91: the dummy newline
parseIntoEnd ==
    /\ res.pc = "end"
    /\ res' = StateCalled(res, ParserState(res.p, [typ |-> "tokenNewline", val |-> <<"\n">>,
                                                    line |-> res.l.line, col |-> res.l.col]),
                          "done")
    /\ UNCHANGED <<arg, sched, build>>

NextParseInto ==
    \/ parseIntoNextToken
    \/ parseIntoState("parseTopLevel")
    \/ parseIntoState("parseEqualsOrTarget")
    \/ parseIntoState("parseAssignment")
    \/ parseIntoState("parseTargets")
    \/ parseIntoState("parseAttributesOrPrereqs")
    \/ parseIntoState("parsePrereqs")
    \/ parseIntoState("parseRecipe")
    \/ parseIntoEnd

SpecParseInto == InitParseInto /\ [][NextParseInto]_vars

\* the tokens a statement of the token stream begins with
StatementStarts(toks) ==
    {k \in 1..Len(toks) :
        /\ toks[k].typ \notin {"tokenNewline", "tokenRecipe"}
        /\ k = 1 \/ toks[k - 1].typ \in {"tokenNewline", "tokenRecipe"}}

IsAssignmentAt(toks, k) == k < Len(toks) /\ toks[k + 1].typ = "tokenAssign"

AssignmentsOf(toks) == {k \in StatementStarts(toks) : IsAssignmentAt(toks, k)}

\* the statement that begins at k has a colon
HasColonFrom(toks, k) ==
    \E c \in k..Len(toks) :
        /\ toks[c].typ = "tokenColon"
        /\ \A i \in k..c : toks[i].typ \notin {"tokenNewline", "tokenRecipe"}

HeadersOf(toks) ==
    {k \in StatementStarts(toks) : ~IsAssignmentAt(toks, k) /\ HasColonFrom(toks, k)}

\* C30: when parseInto has come to its end (it has returned, or waits for
\* a token for ever), every assignment of the token stream was executed
\* and every rule header has added one rule, the last statement of the
\* input among them.
C30_EveryStatement ==
    res.pc \in {"done", "hang"} =>
        /\ Len(res.p.rules) = Cardinality(HeadersOf(res.tokens))
        /\ res.p.executed = Cardinality(AssignmentsOf(res.tokens))

\* the same for the token streams that end, and end with a newline
C30_EndedByNewline ==
    (res.pc = "done" /\ res.tokens # <<>> /\ res.tokens[Len(res.tokens)].typ \in {"tokenNewline", "tokenRecipe"}) =>
        /\ Len(res.p.rules) = Cardinality(HeadersOf(res.tokens))
        /\ res.p.executed = Cardinality(AssignmentsOf(res.tokens))



(***************************************************************************)
(* Rule.parseAttributes on the text behind the first colon of a rule       *)
(* header: up to MaxAttrs attribute letters, the second colon and a        *)
(* prerequisite.                                                           *)
(***************************************************************************)
MaxAttrs == 3

AttrTexts ==
    {letters \o <<":", " ", "b">> :
        letters \in UNION {[1..n -> {"D", "E", "N", "Q", "V"}] : n \in 0..MaxAttrs}}

InitAttrs ==
    /\ SchedOff
    /\ BuildOff
    /\ arg \in AttrTexts
    /\ res = [called |-> FALSE]

\* text, err := r.parseAttributes(line[idx+1:]) on a new rule
CallParseAttributes ==
    /\ ~res.called
    /\ res' = [called |-> TRUE, out |-> parseAttributes({}, <<>>, arg)]
    /\ UNCHANGED <<arg, sched, build>>

NextAttrs == CallParseAttributes

SpecAttrs == InitAttrs /\ [][NextAttrs]_vars

\* the letters of the text before its colon
LettersOf(text) == {text[i] : i \in 1..(IndexByte(text, ":") - 1)}

\* C31: parseAttributes records the letter D as RuleDelete and the letter
\* E as RuleContinue, each letter setting only its own flag.
C31_DeleteAndContinue ==
    res.called =>
        /\ RuleDelete \in res.out.attrs <=> "D" \in LettersOf(arg)
        /\ RuleContinue \in res.out.attrs <=> "E" \in LettersOf(arg)



\* C32: the build that mkNode(root) starts ends: every node that is started
\* reaches a final status (or mk exits with the failure of a recipe), no
\* goroutines wait on each other for ever through the mutexes of the nodes
\* and the channels of the listeners.
C32_StartedEnds ==
    \A n \in Names :
        (status[n] = nodeStatusStarted) ~>
            (status[n] \in {nodeStatusDone, nodeStatusNop, nodeStatusFailed} \/ exitcode # RUNNING)



\* the permits an exclusive rule has taken: those it has stolen while it
\* waits in reserveExclusiveSubproc, all of them while its recipe executes
PermitsTaken(n) ==
    IF ~graph[n].exclusive THEN 0
    ELSE IF task[n].pc \in {"xwaiting", "xwoken"} THEN task[n].stolen
    ELSE IF Executing(n) THEN subprocsAllowed
    ELSE 0

RECURSIVE SumPermits(_)
SumPermits(S) ==
    IF S = {} THEN 0
    ELSE LET n == CHOOSE m \in S : TRUE IN PermitsTaken(n) + SumPermits(S \ {n})

\* C33: after any sequence of reserve and finish operations subprocsRunning
\* is between 0 and subprocsAllowed and is the number of non-exclusive
\* recipes executing plus the permits taken by an exclusive rule that waits
\* or runs; it is 0 when no recipe executes or waits.
C33_PermitCount ==
    /\ 0 <= subprocsRunning
    /\ subprocsRunning <= subprocsAllowed
    /\ subprocsRunning =
          Cardinality({n \in Names : Executing(n) /\ ~graph[n].exclusive}) + SumPermits(Names)
    /\ (\A n \in Names : task[n].pc \notin InRecipe) => subprocsRunning = 0

\* an exclusive rule waits with one permit stolen while a non-exclusive
\* recipe executes and another non-exclusive one waits for a slot
C33_Witness ==
    \E n, m, k \in Names :
        /\ graph[n].exclusive /\ task[n].pc = "xwaiting" /\ task[n].stolen = 1
        /\ ~graph[m].exclusive /\ Executing(m)
        /\ ~graph[k].exclusive /\ task[k].pc = "waiting"



(***************************************************************************)
(* The semaphore under a fair scheduler: the build goes on while a         *)
(* goroutine can take a step, and a recipe that was started returns.       *)
(***************************************************************************)
\* all:V: a b c -- three independent recipes, the one of a exclusive
MkOneExclusive ==
    [n \in Names |->
        CASE n = ROOT -> RootRule(<<"a", "b", "c">>)
          [] n = "a" -> Rule(<<>>, {"V", "X"}, TRUE)
          [] n \in {"b", "c"} -> Rule(<<>>, {}, TRUE)
          [] OTHER -> NoRule]

\* mk without -n and without forced targets, no target present
InitSemFair ==
    /\ InitOf({MkOneExclusive})
    /\ NoCall
    /\ BuildOff
    /\ \A n \in Names : ~fexists[n]
    /\ ~dryrun
    /\ ~rebuildall
    /\ rebuildtargets = {}

\* some goroutine that can take a step takes one: every behaviour of the
\* build is finite, so this is what the fairness of the scheduler to each
\* goroutine comes to
SpecSemFair == InitSemFair /\ [][Next]_vars /\ WF_vars(Next)

\* C34: a rule with attribute X that has called reserveExclusiveSubproc
\* runs its recipe in the end, and a non-exclusive recipe that waits in
\* reserveSubproc runs in the end: no wake-up of Signal or Broadcast is
\* lost, for every job limit of the model.
C34_WaitersRun ==
    \A n \in Names :
        /\ (graph[n].exclusive /\ task[n].pc \in {"reserve", "xfirst", "xwaiting", "xwoken"})
              ~> (task[n].pc = "recipe" \/ exitcode # RUNNING)
        /\ (~graph[n].exclusive /\ task[n].pc \in {"reserve", "waiting", "woken"})
              ~> (task[n].pc = "recipe" \/ exitcode # RUNNING)

\* an exclusive recipe executes with every permit after a non-exclusive
\* recipe has run, while another non-exclusive one waits in reserveSubproc
C34_Witness ==
    \E n, m, k \in Names :
        /\ graph[n].exclusive /\ task[n].pc = "recipe" /\ condL = n
        /\ ~graph[m].exclusive /\ runs[m] = 1 /\ task[m].pc \notin InRecipe
        /\ ~graph[k].exclusive /\ task[k].pc \in {"waiting", "woken"}



\* C35: for every finite input the calls of nextToken come to ok = false
\* after finitely many tokens: no call of nextToken stays in a loop that
\* consumes no input.
C35_NextTokenReturns == res.l.state # "hang"



\* the inputs with a $ that is the last character
SigilLast == {input \in ExpandInputs : input[Len(input)] = "$" /\ (Len(input) = 1 \/ input[Len(input) - 1] # "$")}

\* the inputs with a $ before a character that cannot start an identifier
SigilBeforeOther == {<<"a", "$", " ", "b">>, <<"$", "-">>}

\* C36: expand returns a word list for every input without failing; a $
\* that is the last character of the input, or that stands before a
\* character that cannot start an identifier, is preserved literally.
C36_SigilPreserved ==
    (res # <<>> /\ arg.input \in SigilLast \cup SigilBeforeOther) =>
        /\ ~res.words.panic
        /\ res.words.parts = <<arg.input>>

\* C36 for the $ before a character that cannot start an identifier
C36_SigilBeforeOther ==
    (res # <<>> /\ arg.input \in SigilBeforeOther) =>
        /\ ~res.words.panic
        /\ res.words.parts = <<arg.input>>



\* C37: BuildRule reports a circular dependency for a target only if the
\* target is one of its ancestors on the resolution path, and every call for
\* a target that is one of its ancestors reports it: the appends of
\* prerequisites built side by side neither add a name to the history a call
\* checks nor remove one.
C37_CircularIffAncestor ==
    \A f \in DOMAIN frames :
        /\ frames[f].pc = "circular" => OnCycle(f)
        /\ OnCycle(f) => frames[f].pc \in {"Build", "circular"}

\* C37, the half about the ancestors: no call for a target on its own
\* resolution path gets past the check of the history
C37_AncestorSeen ==
    \A f \in DOMAIN frames : OnCycle(f) => frames[f].pc \in {"Build", "circular"}

\* C37, the other half: no call reports a target that is not on its path
C37_NoSpuriousCycle ==
    \A f \in DOMAIN frames : frames[f].pc = "circular" => OnCycle(f)



\* C38: in a run for one target, a target that is a prerequisite of several
\* targets built side by side has its recipe executed at most once.
C38_RecipeOnce ==
    Len(args) <= 1 =>
        \A i, j \in 1..Len(ran) : ran[i].target = ran[j].target => i = j



\* the turn of parseFile that reads a recipe line directly after a rule
\* header that was parsed without an error
RecipeAfterHeader ==
    /\ res.linenr >= 1
    /\ res.err = Nil
    /\ res'.linenr = res.linenr + 1
    /\ IsHeader(arg.lines[res.linenr])
    /\ IsRecipeLine(arg.lines[res.linenr + 1])

\* the recipe line of that turn is the recipe of the rule the header defined
RecipeToHeaderRule ==
    \E i \in 1..Len(res.rules) :
        /\ res.rules[i] = HeaderOf(arg.lines[res.linenr])
        /\ res'.rules[i].recipe = Tail(Uncommented(arg.lines[res.linenr + 1]))

\* C39: an indented line following a rule header is appended to the recipe
\* of the rule this header defined, also when the header replaced an earlier
\* rule or was merged into one instead of being appended to the rule list.
C39_RecipeOfHeader == [][RecipeAfterHeader => RecipeToHeaderRule]_vars

\* C39 for the headers that were appended at the end of the rule list
C39_RecipeOfLastHeader ==
    [][(RecipeAfterHeader /\ res.rules[Len(res.rules)] = HeaderOf(arg.lines[res.linenr]))
           => RecipeToHeaderRule]_vars

====
